---- MODULE Spec2Model ----
(***************************************************************************)
(* A model of the engagement bot of src/index.js: the users ledger, the    *)
(* awardPoints engine, the message / reaction / slash-command handlers and *)
(* the Twitter poller, as a state machine whose steps are the stretches of *)
(* code between two awaited calls.                                         *)
(*                                                                         *)
(* src/index.js holds two revisions of the bot one after the other (lines  *)
(* 1-847 and lines 849-1878).  The handlers are modelled from the second,  *)
(* current revision.  awardPoints is modelled in both revisions; the       *)
(* variable rev says which one a behaviour runs.                           *)
(***************************************************************************)
EXTENDS Integers, Sequences, FiniteSets, TLC

(***************************************************************************)
(* Bounds of the model.                                                    *)
(***************************************************************************)
\* Handler invocations that may be in flight at the same time.
NTasks == 2
\* Direct awardPoints calls made in a behaviour of AwardSpec.
MaxCalls == 2
\* Failures of external calls (store, Discord) injected in a behaviour.
MaxFaults == 1
\* Messages of one user counted on one day.
MaxMsgs == 4
\* Times the calendar date changes.
MaxDays == 1
\* Connect-wallet rewards logged before /connectwallet is no longer invoked.
MaxConnects == 2
\* admin_logs entries written before /editscores no longer sets a key and
\* /resetpoints is no longer invoked.
MaxEdits == 2
\* Reaction awards logged before reactions are no longer added.
MaxReacts == 2
\* Poll cycles run in a behaviour.
MaxCycles == 2
\* Entries of the in-memory list of reaction channels.
MaxChannels == 2

Tasks == 1..NTasks
Users == {"u1", "u2"}
\* The call sites of AwardSpec: each hands awardPoints a label of its own
\* and an amount.
CallSites == {<<0, "x">>, <<1, "x">>, <<2, "y">>}
\* A column that holds no value (SQL NULL / JS null, undefined, ""): all falsy.
Unset == ""

VARIABLES
  rev,                  \* revision of awardPoints that runs (1 or 2)
  users,                \* table users: discord_id -> row
  activity_logs,        \* table activity_logs, in insertion order
  admin_logs,           \* table admin_logs, in insertion order
  SCORE_CONFIG,         \* in-memory scoring config
  dailyMessageTracker,  \* in-memory per-user tracker
  today,                \* the calendar date new Date() yields
  attempts,             \* history: per user, the messages of the tracked day
                        \* on which a message award was attempted
  capped,               \* history: per user, whether the tracker replaced at
                        \* the last reset had reached the daily cap
  REACTION_CHANNELS,    \* in-memory list of reaction channels
  TWEET_UPDATES_CHANNEL, \* in-memory id of the updates channel, or Unset
  BOT_LOG_CHANNEL,      \* in-memory id of the log channel, or Unset
  reaction_channels,    \* table reaction_channels: the channel ids stored
  processed_tweets,     \* table processed_tweets
  announced,            \* history: tweet ids sent to the updates channel
  cycles,               \* poll cycles started so far
  pollLog,              \* history: what the poll cycles saw and did
  lastReply,            \* history: the last reply a slash command gave
  tasks,                \* handler invocations in flight
  faults,               \* failures of external calls injected so far
  calls,                \* awardPoints calls started by the AwardSpec caller
  done                  \* history: the last two awardPoints calls that returned to that caller

vars == <<rev, users, activity_logs, admin_logs, SCORE_CONFIG,
          dailyMessageTracker, today, attempts, capped, REACTION_CHANNELS,
          TWEET_UPDATES_CHANNEL, BOT_LOG_CHANNEL, reaction_channels,
          processed_tweets, announced, cycles, pollLog,
          lastReply,
          tasks, faults, calls, done>>

\* Groups of variables that whole features leave alone.
msgVars == <<dailyMessageTracker, today, attempts, capped>>
chanVars == <<REACTION_CHANNELS, TWEET_UPDATES_CHANNEL, BOT_LOG_CHANNEL,
             reaction_channels>>
pollVars == <<processed_tweets, announced, cycles, pollLog>>
histVars == <<calls, done>>

(***************************************************************************)
(* The users table.  A row that does not exist is kept as NoRow so that    *)
(* users is a total function; exists tells the two apart.                  *)
(***************************************************************************)
NoRow == [exists |-> FALSE, twitter_id |-> Unset, sol_wallet |-> Unset,
          points |-> 0, updated_at |-> 0]

\* The row an upsert creates when none exists: points takes the column's
\* default, 0.
NewRow == [NoRow EXCEPT !.exists = TRUE]

(***************************************************************************)
(* awardPoints: results.  A result is a record; isNull says that the       *)
(* function returned JS null (first revision), pointsNull that its         *)
(* newPoints is null, verified is the verified field (absent reads as      *)
(* falsy, hence FALSE).                                                    *)
(***************************************************************************)
NoResult == [isNull |-> TRUE, pointsNull |-> TRUE, newPoints |-> 0,
             verified |-> FALSE]

\* src/index.js:1061-1067 (second revision), 206-221 (first revision).
NotVerifiedResult(r) ==
  IF r = 1 THEN NoResult
  ELSE [isNull |-> FALSE, pointsNull |-> TRUE, newPoints |-> 0,
        verified |-> FALSE]

UpdateErrResult_Unverified(r) == NotVerifiedResult(r)

\* src/index.js:1078-1083 (second revision), 232-237 (first revision).
UpdateErrResult(r) ==
  IF r = 1 THEN NoResult
  ELSE [isNull |-> FALSE, pointsNull |-> TRUE, newPoints |-> 0,
        verified |-> TRUE]

\* src/index.js:1090-1094 (second revision), 244 (first revision).
SuccessResult(r, newPoints) ==
  [isNull |-> FALSE, pointsNull |-> FALSE, newPoints |-> newPoints,
   verified |-> (r = 2)]

IsVerified_Always(row) == TRUE

\* The gate of awardPoints: a row was found and its twitter_id is truthy.
IsVerified(row) == row.exists /\ row.twitter_id # Unset

NewPoints_Overwrite(oldPoints, pointsToAdd) == pointsToAdd

\* const newPoints = oldPoints + pointsToAdd
NewPoints(oldPoints, pointsToAdd) == oldPoints + pointsToAdd

\* if (pointsToAdd !== 0)
ShouldLog(pointsToAdd) == pointsToAdd # 0

\* The row as the points update of awardPoints leaves it.  The first
\* revision also writes updated_at: new Date(), a timestamp later than the
\* one the row held (modelled as the number of such writes).
UpdatedRow(r, row, newPoints) ==
  IF r = 1
  THEN [row EXCEPT !.points = newPoints, !.updated_at = row.updated_at + 1]
  ELSE [row EXCEPT !.points = newPoints]

LogEntry(discordId, action, points) ==
  [discord_id |-> discordId, action |-> action, points |-> points]

(***************************************************************************)
(* Handler invocations.  h names the handler, pc the awaited call it is    *)
(* suspended at; the other fields are its local variables.                 *)
(***************************************************************************)
IdleTask == [h |-> "idle", pc |-> "idle", u |-> "u1", amt |-> 0,
             action |-> "none", oldPoints |-> 0, ret |-> NoResult,
             before |-> 0, logStart |-> 0, ov |-> FALSE, ok |-> TRUE,
             walletAddr |-> Unset, twitter_id |-> Unset,
             cycle |-> 0, tweets |-> <<>>, rows |-> <<>>,
             likesData |-> {}, todo |-> <<>>, adminId |-> "none",
             permissions |-> {}, channelId |-> Unset]

Idle(t) == tasks[t].h = "idle"

\* Slots carry no meaning: a new invocation takes the lowest free one.
Free(t) == Idle(t) /\ \A s \in Tasks : Idle(s) => t <= s

Active == {t \in Tasks : ~Idle(t)}

\* The external collaborators whose calls may fail, and the failures
\* injected so far.
NoFaults == [store |-> 0, twitter |-> 0, discord |-> 0]

\* An external call may fail while the fault budget lasts.
Outcomes ==
  IF faults.store + faults.twitter + faults.discord < MaxFaults
  THEN {TRUE, FALSE} ELSE {TRUE}

Fault(of, ok) == IF ok THEN faults ELSE [faults EXCEPT ![of] = @ + 1]

\* A handler starting in slot t with locals l; every invocation already in
\* flight now overlaps another one.
Start(t, l) ==
  [s \in Tasks |->
     IF s = t THEN [l EXCEPT !.ov = (Active # {})]
     ELSE IF Idle(s) THEN tasks[s]
     ELSE [tasks[s] EXCEPT !.ov = TRUE]]

(***************************************************************************)
(* In-memory state of the second revision.                                 *)
(***************************************************************************)
\* const SCORE_CONFIG = { ... }
DefaultConfig ==
  [messagesPerPoint |-> 5, messageMaxPointsPerDay |-> 20,
   reactionPoints |-> 2, connectWalletPoints |-> 10,
   likePoints |-> 4, retweetPoints |-> 7,
   quoteRetweetPoints |-> 10, replyPoints |-> 8]

\* dailyMessageTracker[userId] is undefined until the user's first message.
NoTracker == [present |-> FALSE, date |-> 0, messagesSoFar |-> 0,
              pointsEarnedToday |-> 0]

\* A reply to a slash command: keys are the names it lists, args the
\* options and permission of the invocation it answers.
NoReply == [cmd |-> "none", user |-> "none", text |-> "none", keys |-> {},
            args |-> <<>>]

\* The in-memory state of a process that has started and loaded the
\* reaction channels, with nothing in flight; the tables are the store's and
\* outlive the process.
StartUp(config, reactionChannels) ==
  /\ SCORE_CONFIG = config
  /\ dailyMessageTracker = [u \in Users |-> NoTracker]
  /\ today = 0
  /\ attempts = [u \in Users |-> {}]
  /\ capped = [u \in Users |-> FALSE]
  /\ REACTION_CHANNELS = reactionChannels
  /\ TWEET_UPDATES_CHANNEL = Unset
  /\ BOT_LOG_CHANNEL = Unset
  /\ reaction_channels = {reactionChannels[i] : i \in 1..Len(reactionChannels)}
  /\ announced = <<>>
  /\ cycles = 0
  /\ pollLog = <<>>
  /\ lastReply = NoReply
  /\ tasks = [t \in Tasks |-> IdleTask]
  /\ faults = NoFaults
  /\ calls = 0
  /\ done = <<>>

(***************************************************************************)
(* awardPoints(discordId, pointsToAdd, action), one action per awaited     *)
(* store call.  The call is made by the invocation in slot t, whose locals *)
(* u, amt and action are the arguments; the result is left in ret and the  *)
(* caller resumes at pc = "ap_ret".                                        *)
(***************************************************************************)
\* 1. Fetch user, and the verification gate.
awardPoints_fetch(t) ==
  /\ tasks[t].pc = "ap_fetch"
  /\ \E ok \in Outcomes :
       LET tk == tasks[t]
           userData == users[tk.u]
       IN /\ faults' = Fault("store", ok)
          /\ IF ok /\ IsVerified(userData)
             THEN tasks' = [tasks EXCEPT ![t].pc = "ap_update",
                                         ![t].oldPoints = userData.points]
             ELSE tasks' = [tasks EXCEPT ![t].pc = "ap_ret",
                                         ![t].ret = NotVerifiedResult(rev),
                                         ![t].ok = tk.ok /\ ok]
  /\ UNCHANGED <<rev, users, activity_logs, admin_logs, SCORE_CONFIG,
                 msgVars, chanVars, pollVars, lastReply, histVars>>

\* 2. Update points: writes oldPoints + pointsToAdd, whatever the row holds
\* by now.
awardPoints_update(t) ==
  /\ tasks[t].pc = "ap_update"
  /\ \E ok \in Outcomes :
       LET tk == tasks[t]
           newPoints == NewPoints(tk.oldPoints, tk.amt)
       IN /\ faults' = Fault("store", ok)
          /\ IF ok
             THEN /\ users' = [users EXCEPT
                                 ![tk.u] = UpdatedRow(rev, users[tk.u], newPoints)]
                  /\ tasks' = [tasks EXCEPT
                                 ![t].pc = IF ShouldLog(tk.amt) THEN "ap_log"
                                           ELSE "ap_ret",
                                 ![t].ret = SuccessResult(rev, newPoints)]
             ELSE /\ users' = users
                  /\ tasks' = [tasks EXCEPT ![t].pc = "ap_ret",
                                            ![t].ret = UpdateErrResult(rev),
                                            ![t].ok = FALSE]
  /\ UNCHANGED <<rev, activity_logs, admin_logs, SCORE_CONFIG,
                 msgVars, chanVars, pollVars, lastReply, histVars>>

\* 3. Log: logActivity inserts the entry; an insert error is only logged.
awardPoints_log(t) ==
  /\ tasks[t].pc = "ap_log"
  /\ \E ok \in Outcomes :
       LET tk == tasks[t]
       IN /\ faults' = Fault("store", ok)
          /\ activity_logs' =
               IF ok THEN Append(activity_logs, LogEntry(tk.u, tk.action, tk.amt))
               ELSE activity_logs
          /\ tasks' = [tasks EXCEPT ![t].pc = "ap_ret",
                                    ![t].ok = tk.ok /\ ok]
  /\ UNCHANGED <<rev, users, admin_logs, SCORE_CONFIG,
                 msgVars, chanVars, pollVars, lastReply, histVars>>

(***************************************************************************)
(* AwardSpec: awardPoints on its own, called with every amount and label   *)
(* by up to NTasks callers at a time, in either revision.                  *)
(***************************************************************************)
\* Rows the users table may hold when a behaviour of AwardSpec starts.
InitRows ==
  {NoRow, NewRow, [NewRow EXCEPT !.twitter_id = "id1", !.points = 3]}

VerifiedRow == [NewRow EXCEPT !.twitter_id = "id2"]

AwardInit ==
  /\ rev \in {1, 2}
  /\ \E row \in InitRows : users = [u \in Users |-> IF u = "u1" THEN row
                                                     ELSE VerifiedRow]
  /\ activity_logs = <<>>
  /\ admin_logs = <<>>
  /\ processed_tweets = {}
  /\ StartUp(DefaultConfig, <<>>)

\* A caller invokes awardPoints(u, amt, label).
CallAward(t, u, amt, label) ==
  /\ Free(t)
  /\ calls < MaxCalls
  /\ calls' = calls + 1
  /\ tasks' = Start(t, [IdleTask EXCEPT !.h = "award", !.pc = "ap_fetch",
                                        !.u = u, !.amt = amt,
                                        !.action = label,
                                        !.before = users[u].points,
                                        !.logStart = Len(activity_logs)])
  /\ UNCHANGED <<rev, users, activity_logs, admin_logs, SCORE_CONFIG,
                 msgVars, chanVars, pollVars, lastReply, faults, done>>

\* The call returns.  done keeps what the callers of the last two calls saw,
\* as long as those calls overlapped no other handler: a call that did
\* overlap one empties it.
AwardReturn(t) ==
  /\ tasks[t].h = "award"
  /\ tasks[t].pc = "ap_ret"
  /\ LET tk == tasks[t]
         call == [u |-> tk.u, amt |-> tk.amt, action |-> tk.action,
                  ret |-> tk.ret, before |-> tk.before,
                  after |-> users[tk.u].points,
                  logStart |-> tk.logStart, logEnd |-> Len(activity_logs),
                  ok |-> tk.ok]
     IN done' = IF tk.ov THEN <<>>
                ELSE IF Len(done) < 2 THEN Append(done, call)
                ELSE <<done[2], call>>
  /\ tasks' = [tasks EXCEPT ![t] = IdleTask]
  /\ UNCHANGED <<rev, users, activity_logs, admin_logs, SCORE_CONFIG,
                 msgVars, chanVars, pollVars, lastReply, faults, calls>>

AwardNext ==
  \/ \E t \in Tasks, u \in Users, site \in CallSites :
       CallAward(t, u, site[1], site[2])
  \/ \E t \in Tasks : awardPoints_fetch(t)
  \/ \E t \in Tasks : awardPoints_update(t)
  \/ \E t \in Tasks : awardPoints_log(t)
  \/ \E t \in Tasks : AwardReturn(t)

AwardSpec == AwardInit /\ [][AwardNext]_vars

(***************************************************************************)
(* /verify: upsert of (discord_id, twitter_id); src/index.js:1105-1123.    *)
(***************************************************************************)
Reply(cmd, u, text) ==
  [cmd |-> cmd, user |-> u, text |-> text, keys |-> {}, args |-> <<>>]

\* member.permissions.has(flag): discord.js answers true for every flag when
\* the member holds Administrator.
Has_Any(permissions, flag) == TRUE

Has(permissions, flag) ==
  flag \in permissions \/ "Administrator" \in permissions

\* The permissions a member may hold.
PermissionSets == {{}, {"ManageGuild"}, {"Administrator"}}

\* The row an upsert of the given column leaves: the existing row with that
\* column set, or a new row.
Upserted(row, col, val) ==
  [(IF row.exists THEN row ELSE NewRow) EXCEPT ![col] = val]

verify(u, twitterId) ==
  /\ \E ok \in Outcomes :
       /\ faults' = Fault("store", ok)
       /\ users' = IF ok
                   THEN [users EXCEPT ![u] = Upserted(users[u], "twitter_id", twitterId)]
                   ELSE users
       /\ lastReply' = Reply("verify", u, IF ok THEN "linked" ELSE "error")
  /\ UNCHANGED <<rev, activity_logs, admin_logs, SCORE_CONFIG, msgVars,
                 chanVars, pollVars, tasks, histVars>>

(***************************************************************************)
(* messageCreate; src/index.js:1581-1649.                                  *)
(***************************************************************************)
FreshTracker == [present |-> TRUE, date |-> today, messagesSoFar |-> 0,
                 pointsEarnedToday |-> 0]

\* The tracker of a user is missing, or of another date: it is replaced.
Stale(tr) == ~tr.present \/ tr.date # today

\* dailyMessageTracker[userId] once the message is counted (lines 1587-1604).
Counted(tr) ==
  LET cur == IF Stale(tr) THEN FreshTracker ELSE tr
  IN [cur EXCEPT !.messagesSoFar = @ + 1]

IsMultiple_Always(a, b) == TRUE

\* a % b === 0 in JS, for integers: never when b is 0 (NaN).
IsMultiple(a, b) == b # 0 /\ a % (IF b < 0 THEN -b ELSE b) = 0

Min(a, b) == IF a < b THEN a ELSE b

\* lines 1607-1613: the day's cap is reached.
CapReached(tr) == tr.pointsEarnedToday >= SCORE_CONFIG.messageMaxPointsPerDay

PointsToAward_Headroom(tr) ==
  SCORE_CONFIG.messageMaxPointsPerDay - tr.pointsEarnedToday

\* lines 1622-1627: potentialPoints = 1, capped by what can still be earned.
PointsToAward(tr) ==
  Min(1, SCORE_CONFIG.messageMaxPointsPerDay - tr.pointsEarnedToday)

\* The handler up to its await of awardPoints, or to its return.
messageCreate(t, u, bot) ==
  /\ Free(t)
  /\ ~Stale(dailyMessageTracker[u]) =>
        dailyMessageTracker[u].messagesSoFar < MaxMsgs
  /\ IF bot
     THEN UNCHANGED <<dailyMessageTracker, attempts, capped, tasks>>
     ELSE LET tr == Counted(dailyMessageTracker[u])
              att == IF Stale(dailyMessageTracker[u]) THEN {} ELSE attempts[u]
              award == /\ ~CapReached(tr)
                       /\ IsMultiple(tr.messagesSoFar, SCORE_CONFIG.messagesPerPoint)
                       /\ PointsToAward(tr) > 0
          IN /\ dailyMessageTracker' = [dailyMessageTracker EXCEPT ![u] = tr]
             /\ attempts' = [attempts EXCEPT
                               ![u] = IF award THEN att \cup {tr.messagesSoFar}
                                      ELSE att]
             /\ capped' = [capped EXCEPT
                             ![u] = IF Stale(dailyMessageTracker[u])
                                    THEN /\ dailyMessageTracker[u].present
                                         /\ CapReached(dailyMessageTracker[u])
                                    ELSE @]
             /\ tasks' = IF award
                         THEN Start(t, [IdleTask EXCEPT
                                          !.h = "message", !.pc = "ap_fetch",
                                          !.u = u, !.amt = PointsToAward(tr),
                                          !.action = "message_points",
                                          !.before = users[u].points,
                                          !.logStart = Len(activity_logs)])
                         ELSE tasks
  /\ UNCHANGED <<rev, users, activity_logs, admin_logs, SCORE_CONFIG, today,
                 chanVars, pollVars, lastReply, faults, histVars>>

\* After the await (line 1633): pointsEarnedToday += pointsToAward, on the
\* tracker the user has by now, whatever awardPoints returned.
messageCreate_after(t) ==
  /\ tasks[t].h = "message"
  /\ tasks[t].pc = "ap_ret"
  /\ dailyMessageTracker' =
       [dailyMessageTracker EXCEPT
          ![tasks[t].u].pointsEarnedToday = @ + tasks[t].amt]
  /\ tasks' = [tasks EXCEPT ![t] = IdleTask]
  /\ UNCHANGED <<rev, users, activity_logs, admin_logs, SCORE_CONFIG, today,
                 attempts, capped, chanVars, pollVars, lastReply, faults,
                 histVars>>

\* Midnight passes: new Date() yields the next date from now on.
NextDay ==
  /\ today < MaxDays
  /\ today' = today + 1
  /\ UNCHANGED <<rev, users, activity_logs, admin_logs, SCORE_CONFIG,
                 dailyMessageTracker, attempts, capped, chanVars, pollVars,
                 lastReply, tasks, faults, histVars>>

(***************************************************************************)
(* MsgSpec: messages of the users, midnight and /verify, with awards in    *)
(* flight overlapping later messages.  SeqMsgSpec: the same, each message  *)
(* handled only when no other handler is in flight.                        *)
(***************************************************************************)
\* (messagesPerPoint, messageMaxPointsPerDay) as /editscores may have set
\* them when a behaviour starts.
MsgConfigs == {<<2, 1>>, <<1, 2>>}

MsgInit ==
  /\ rev = 2
  /\ \E row \in {NoRow, VerifiedRow} :
       users = [u \in Users |-> IF u = "u1" THEN row ELSE VerifiedRow]
  /\ activity_logs = <<>>
  /\ admin_logs = <<>>
  /\ processed_tweets = {}
  /\ \E c \in MsgConfigs :
       StartUp([DefaultConfig EXCEPT !.messagesPerPoint = c[1],
                                     !.messageMaxPointsPerDay = c[2]],
               <<>>)

MsgNext ==
  \/ \E t \in Tasks, bot \in BOOLEAN : messageCreate(t, "u1", bot)
  \/ \E t \in Tasks : awardPoints_fetch(t)
  \/ \E t \in Tasks : awardPoints_update(t)
  \/ \E t \in Tasks : awardPoints_log(t)
  \/ \E t \in Tasks : messageCreate_after(t)
  \/ NextDay

MsgSpec == MsgInit /\ [][MsgNext]_vars

SeqMsgNext ==
  \/ \E t \in Tasks, u \in Users, bot \in BOOLEAN :
        Active = {} /\ messageCreate(t, u, bot)
  \/ \E t \in Tasks : awardPoints_fetch(t)
  \/ \E t \in Tasks : awardPoints_update(t)
  \/ \E t \in Tasks : awardPoints_log(t)
  \/ \E t \in Tasks : messageCreate_after(t)
  \/ NextDay

SeqMsgSpec == MsgInit /\ [][SeqMsgNext]_vars


(***************************************************************************)
(* /connectwallet; src/index.js:1472-1572.                                 *)
(***************************************************************************)
Wallets == {"w1", "w2"}

Finish(t, reply) ==
  /\ tasks' = [tasks EXCEPT ![t] = IdleTask]
  /\ lastReply' = reply

\* The invocation hands over to awardPoints(user.id, connectWalletPoints,
\* "connect_wallet").
AwardWallet(t) ==
  /\ tasks' = [tasks EXCEPT ![t].pc = "ap_fetch",
                            ![t].amt = SCORE_CONFIG.connectWalletPoints,
                            ![t].action = "connect_wallet",
                            ![t].before = users[tasks[t].u].points,
                            ![t].logStart = Len(activity_logs)]
  /\ lastReply' = lastReply

\* lines 1474-1486: the option is checked and the user's row is requested.
connectwallet(t, u, walletAddr) ==
  /\ Free(t)
  /\ Len(activity_logs) < MaxConnects
  /\ IF walletAddr = Unset
     THEN /\ lastReply' = Reply("connectwallet", u, "invalid")
          /\ tasks' = tasks
     ELSE /\ tasks' = Start(t, [IdleTask EXCEPT
                                  !.h = "connectwallet", !.pc = "cw_fetch",
                                  !.u = u, !.walletAddr = walletAddr])
          /\ lastReply' = lastReply
  /\ UNCHANGED <<rev, users, activity_logs, admin_logs, SCORE_CONFIG,
                 msgVars, chanVars, pollVars, faults, histVars>>

\* if (userRec.sol_wallet)
StoredWallet(row) == row.sol_wallet # Unset

\* lines 1482-1488, 1527-1534: the row arrives, or an error, or no row.
connectwallet_fetch(t) ==
  /\ tasks[t].pc = "cw_fetch"
  /\ \E ok \in Outcomes :
       LET userRec == users[tasks[t].u]
       IN /\ faults' = Fault("store", ok)
          /\ IF ~ok \/ ~userRec.exists
             THEN /\ tasks' = [tasks EXCEPT ![t].pc = "cw_upsert"]
                  /\ lastReply' = lastReply
             ELSE IF StoredWallet(userRec)
             THEN Finish(t, Reply("connectwallet", tasks[t].u, "already"))
             ELSE /\ tasks' = [tasks EXCEPT
                                 ![t].pc = "cw_update",
                                 ![t].twitter_id = userRec.twitter_id]
                  /\ lastReply' = lastReply
  /\ UNCHANGED <<rev, users, activity_logs, admin_logs, SCORE_CONFIG,
                 msgVars, chanVars, pollVars, histVars>>

\* lines 1491-1493: upsert of (discord_id, sol_wallet); its result is not
\* looked at.
connectwallet_upsert(t) ==
  /\ tasks[t].pc = "cw_upsert"
  /\ \E ok \in Outcomes :
       /\ faults' = Fault("store", ok)
       /\ users' = IF ok
                   THEN [users EXCEPT
                           ![tasks[t].u] = Upserted(@, "sol_wallet",
                                                    tasks[t].walletAddr)]
                   ELSE users
  /\ tasks' = [tasks EXCEPT ![t].pc = "cw_refetch"]
  /\ UNCHANGED <<rev, activity_logs, admin_logs, SCORE_CONFIG,
                 msgVars, chanVars, pollVars, lastReply, histVars>>

\* lines 1496-1512: the row is read again; newUserRec is null when the read
\* fails or finds no row, and newUserRec.twitter_id then throws.
connectwallet_refetch(t) ==
  /\ tasks[t].pc = "cw_refetch"
  /\ \E ok \in Outcomes :
       LET newUserRec == users[tasks[t].u]
       IN /\ faults' = Fault("store", ok)
          /\ IF ~ok \/ ~newUserRec.exists
             THEN Finish(t, Reply("connectwallet", tasks[t].u, "uncaught"))
             ELSE IF newUserRec.twitter_id = Unset
             THEN Finish(t, Reply("connectwallet", tasks[t].u, "must verify"))
             ELSE AwardWallet(t)
  /\ UNCHANGED <<rev, users, activity_logs, admin_logs, SCORE_CONFIG,
                 msgVars, chanVars, pollVars, histVars>>

\* lines 1543-1558: update of sol_wallet; its result is not looked at, and
\* twitter_id is the one read at the start.
connectwallet_update(t) ==
  /\ tasks[t].pc = "cw_update"
  /\ \E ok \in Outcomes :
       /\ faults' = Fault("store", ok)
       /\ users' = IF ok /\ users[tasks[t].u].exists
                   THEN [users EXCEPT
                           ![tasks[t].u].sol_wallet = tasks[t].walletAddr]
                   ELSE users
  /\ IF tasks[t].twitter_id = Unset
     THEN Finish(t, Reply("connectwallet", tasks[t].u, "must verify"))
     ELSE AwardWallet(t)
  /\ UNCHANGED <<rev, activity_logs, admin_logs, SCORE_CONFIG,
                 msgVars, chanVars, pollVars, histVars>>

\* lines 1513-1526, 1559-1571: the reply after awardPoints.
connectwallet_after(t) ==
  /\ tasks[t].h = "connectwallet"
  /\ tasks[t].pc = "ap_ret"
  /\ Finish(t, Reply("connectwallet", tasks[t].u,
                     IF tasks[t].ret.pointsNull THEN "no points"
                     ELSE "points awarded"))
  /\ UNCHANGED <<rev, users, activity_logs, admin_logs, SCORE_CONFIG,
                 msgVars, chanVars, pollVars, faults, histVars>>

(***************************************************************************)
(* WalletSpec: /verify and /connectwallet of one user, with invocations    *)
(* overlapping and store calls failing.                                    *)
(***************************************************************************)
WalletInit ==
  /\ rev = 2
  /\ \E row \in {NoRow, NewRow, VerifiedRow} :
       users = [u \in Users |-> IF u = "u1" THEN row ELSE VerifiedRow]
  /\ activity_logs = <<>>
  /\ admin_logs = <<>>
  /\ processed_tweets = {}
  /\ StartUp(DefaultConfig, <<>>)

WalletNext ==
  \/ verify("u1", "id1")
  \/ \E t \in Tasks, w \in Wallets \cup {Unset} : connectwallet(t, "u1", w)
  \/ \E t \in Tasks : connectwallet_fetch(t)
  \/ \E t \in Tasks : connectwallet_upsert(t)
  \/ \E t \in Tasks : connectwallet_refetch(t)
  \/ \E t \in Tasks : connectwallet_update(t)
  \/ \E t \in Tasks : awardPoints_fetch(t)
  \/ \E t \in Tasks : awardPoints_update(t)
  \/ \E t \in Tasks : awardPoints_log(t)
  \/ \E t \in Tasks : connectwallet_after(t)

WalletSpec == WalletInit /\ [][WalletNext]_vars

(***************************************************************************)
(* /editscores; src/index.js:1237-1262.                                    *)
(***************************************************************************)
OwnKey_Any(config, key) == TRUE

\* SCORE_CONFIG.hasOwnProperty(key)
OwnKey(config, key) == key \in DOMAIN config

\* SCORE_CONFIG[key] = value: sets the key, adding it if it is not there.
SetKey(config, key, value) ==
  [k \in DOMAIN config \cup {key} |-> IF k = key THEN value ELSE config[k]]

\* The row logAdminAction inserts.
AdminEntry(adminId, userId, action, pointsChanged) ==
  [admin_id |-> adminId, user_id |-> userId, action |-> action,
   points_changed |-> pointsChanged]

\* manageGuild: the member holds ManageGuild.
editscores(u, manageGuild, key, value) ==
  /\ (manageGuild /\ OwnKey(SCORE_CONFIG, key)) => Len(admin_logs) < MaxEdits
  /\ LET reply(text, keys) ==
           [Reply("editscores", u, text) EXCEPT
              !.keys = keys, !.args = <<manageGuild, key, value>>]
     IN IF ~manageGuild
        THEN /\ lastReply' = reply("only admins or mods", {})
             /\ UNCHANGED <<SCORE_CONFIG, admin_logs, faults>>
        ELSE IF ~OwnKey(SCORE_CONFIG, key)
        THEN /\ lastReply' = reply("invalid key", DOMAIN SCORE_CONFIG)
             /\ UNCHANGED <<SCORE_CONFIG, admin_logs, faults>>
        ELSE /\ SCORE_CONFIG' = SetKey(SCORE_CONFIG, key, value)
             /\ \E ok \in Outcomes :
                  /\ faults' = Fault("store", ok)
                  /\ admin_logs' =
                       IF ok
                       THEN Append(admin_logs,
                                   AdminEntry(u, "N/A", "editscores_" \o key,
                                              value))
                       ELSE admin_logs
             /\ lastReply' = reply("updated", {})
  /\ UNCHANGED <<rev, users, activity_logs, msgVars, chanVars, pollVars,
                 tasks, histVars>>

(***************************************************************************)
(* messageReactionAdd; src/index.js:1658-1683.                             *)
(***************************************************************************)
Includes(list, x) == \E i \in 1..Len(list) : list[i] = x

messageReactionAdd(t, u, channelId, bot) ==
  /\ Free(t)
  /\ Len(activity_logs) < MaxReacts
  /\ tasks' = IF ~bot /\ Includes(REACTION_CHANNELS, channelId)
              THEN Start(t, [IdleTask EXCEPT
                               !.h = "reaction", !.pc = "ap_fetch", !.u = u,
                               !.amt = SCORE_CONFIG.reactionPoints,
                               !.action = "reaction_points",
                               !.before = users[u].points,
                               !.logStart = Len(activity_logs)])
              ELSE tasks
  /\ UNCHANGED <<rev, users, activity_logs, admin_logs, SCORE_CONFIG,
                 msgVars, chanVars, pollVars, lastReply, faults, histVars>>

\* After the await the result is only logged.
messageReactionAdd_after(t) ==
  /\ tasks[t].h = "reaction"
  /\ tasks[t].pc = "ap_ret"
  /\ tasks' = [tasks EXCEPT ![t] = IdleTask]
  /\ UNCHANGED <<rev, users, activity_logs, admin_logs, SCORE_CONFIG,
                 msgVars, chanVars, pollVars, lastReply, faults, histVars>>

(***************************************************************************)
(* CfgSpec: /editscores by members with and without ManageGuild.           *)
(* ReactSpec: reactions of the users in listed and unlisted channels.      *)
(***************************************************************************)
\* Keys given to /editscores: two of SCORE_CONFIG, one of the first
\* revision's SCORE_CONFIG only, and one that every object inherits.
EditKeys == {"reactionPoints", "likePoints", "messagePoints", "toString"}
EditValues == {0, 3}

CfgInit ==
  /\ rev = 2
  /\ users = [u \in Users |-> IF u = "u1" THEN NoRow ELSE VerifiedRow]
  /\ activity_logs = <<>>
  /\ admin_logs = <<>>
  /\ processed_tweets = {}
  /\ StartUp(DefaultConfig, <<"c1">>)

CfgNext ==
  \E manageGuild \in BOOLEAN, key \in EditKeys, value \in EditValues :
       editscores("u1", manageGuild, key, value)

CfgSpec == CfgInit /\ [][CfgNext]_vars

ReactNext ==
  \/ \E t \in Tasks, u \in Users, channelId \in {"c1", "c2"}, bot \in BOOLEAN :
       messageReactionAdd(t, u, channelId, bot)
  \/ \E t \in Tasks : awardPoints_fetch(t)
  \/ \E t \in Tasks : awardPoints_update(t)
  \/ \E t \in Tasks : awardPoints_log(t)
  \/ \E t \in Tasks : messageReactionAdd_after(t)

ReactSpec == CfgInit /\ [][ReactNext]_vars

(***************************************************************************)
(* The Twitter poller: checkTwitterActivity, hasProcessedTweet,            *)
(* markTweetAsProcessed, awardTweetEngagementPoints;                       *)
(* src/index.js:1688-1866.  One invocation is one poll cycle.              *)
(***************************************************************************)
\* What userTimeline may return: the recent tweets, newest first.
Timelines == {<<"t1">>, <<"t2", "t1">>}
\* What tweetLikedBy and tweetRetweetedBy may return: the ids of accounts,
\* id2 being the twitter_id of a user and id1 that of nobody here.
LikerSets == {{"id1"}, {"id1", "id2"}}
RetweeterSets == {{"id2"}}

\* The users in the order the select returns them.
UserList == <<"u1", "u2">>

\* The awards awardTweetEngagementPoints makes for the rows it selected
\* (lines 1821-1858): row by row, the like and then the retweet, skipping
\* rows whose twitter_id is empty.
Engagements_None(rows, likesData, retweetsData) == <<>>

RECURSIVE Engagements(_, _, _)
Engagements(rows, likesData, retweetsData) ==
  IF rows = <<>> THEN <<>>
  ELSE LET u == Head(rows)
           like == IF u.twitter_id # Unset /\ u.twitter_id \in likesData
                   THEN <<[u |-> u.discord_id, action |-> "twitter_like"]>>
                   ELSE <<>>
           rt == IF u.twitter_id # Unset /\ u.twitter_id \in retweetsData
                 THEN <<[u |-> u.discord_id, action |-> "twitter_retweet"]>>
                 ELSE <<>>
       IN like \o rt \o Engagements(Tail(rows), likesData, retweetsData)

\* The rows of users that exist, as (discord_id, twitter_id).
RECURSIVE SelectUsers(_)
SelectUsers(list) ==
  IF list = <<>> THEN <<>>
  ELSE (IF users[Head(list)].exists
        THEN <<[discord_id |-> Head(list),
                twitter_id |-> users[Head(list)].twitter_id]>>
        ELSE <<>>) \o SelectUsers(Tail(list))

\* SCORE_CONFIG.likePoints / SCORE_CONFIG.retweetPoints, read at the call.
EngagementPoints(action) ==
  IF action = "twitter_like" THEN SCORE_CONFIG.likePoints
  ELSE SCORE_CONFIG.retweetPoints

\* The cycle in slot t goes on, with todo the awards still to make for its
\* current tweet and log the history so far: with the next award, else with
\* the next tweet, else it ends.
Continue_Stop(t, todo, log) ==
  /\ tasks' = [tasks EXCEPT ![t] = IdleTask]
  /\ pollLog' = log

Continue(t, todo, log) ==
  LET tk == tasks[t]
      loop == [IdleTask EXCEPT !.h = "poll", !.cycle = tk.cycle,
                               !.tweets = tk.tweets, !.ov = tk.ov]
  IN IF todo # <<>>
     THEN /\ tasks' = [tasks EXCEPT
                         ![t] = [loop EXCEPT
                                   !.pc = "ap_fetch",
                                   !.u = Head(todo).u,
                                   !.action = Head(todo).action,
                                   !.amt = EngagementPoints(Head(todo).action),
                                   !.before = users[Head(todo).u].points,
                                   !.logStart = Len(activity_logs),
                                   !.todo = Tail(todo)]]
          /\ pollLog' = Append(log, [ev |-> "award", cycle |-> tk.cycle,
                                     tweet |-> Head(tk.tweets),
                                     u |-> Head(todo).u,
                                     action |-> Head(todo).action])
     ELSE /\ tasks' = [tasks EXCEPT
                         ![t] = IF Len(tk.tweets) > 1
                                THEN [loop EXCEPT !.pc = "p_has",
                                                  !.tweets = Tail(tk.tweets)]
                                ELSE IdleTask]
          /\ pollLog' = log

\* A cycle starts, from the timer or from /fetchtwitter, and asks for the
\* account (lines 1688-1694).
checkTwitterActivity(t) ==
  /\ Free(t)
  /\ cycles < MaxCycles
  /\ cycles' = cycles + 1
  /\ tasks' = Start(t, [IdleTask EXCEPT !.h = "poll", !.pc = "p_account",
                                        !.cycle = cycles + 1])
  /\ UNCHANGED <<rev, users, activity_logs, admin_logs, SCORE_CONFIG,
                 msgVars, chanVars, processed_tweets, announced, pollLog,
                 lastReply, faults, histVars>>

\* The catch blocks and the tests of the answers, lines 1695-1706 and
\* 1717-1724: the cycle goes on with a good answer and returns otherwise.
OrAbort_Never(ok, proceed) == proceed

OrAbort(ok, proceed) == IF ok THEN proceed ELSE IdleTask

\* lines 1692-1706: the account arrives, or the call fails or has no id.
poll_account(t) ==
  /\ tasks[t].pc = "p_account"
  /\ \E ok \in Outcomes :
       /\ faults' = Fault("twitter", ok)
       /\ tasks' = [tasks EXCEPT
                      ![t] = OrAbort(ok, [@ EXCEPT !.pc = "p_timeline"])]
  /\ UNCHANGED <<rev, users, activity_logs, admin_logs, SCORE_CONFIG,
                 msgVars, chanVars, pollVars, lastReply, histVars>>

\* lines 1709-1725: the timeline arrives, or the call fails or has no tweets.
poll_timeline(t) ==
  /\ tasks[t].pc = "p_timeline"
  /\ \E ok \in Outcomes, timeline \in Timelines :
       /\ faults' = Fault("twitter", ok)
       /\ tasks' = [tasks EXCEPT
                      ![t] = OrAbort(ok, [@ EXCEPT !.pc = "p_has",
                                                   !.tweets = timeline])]
  /\ UNCHANGED <<rev, users, activity_logs, admin_logs, SCORE_CONFIG,
                 msgVars, chanVars, pollVars, lastReply, histVars>>

\* hasProcessedTweet (lines 1755-1765): a failed lookup has no data and
\* answers false.
poll_hasProcessed(t) ==
  /\ tasks[t].pc = "p_has"
  /\ \E ok \in Outcomes :
       LET tw == Head(tasks[t].tweets)
           processed == ok /\ tw \in processed_tweets
       IN /\ faults' = Fault("store", ok)
          /\ tasks' = [tasks EXCEPT ![t].pc = IF processed THEN "e_users"
                                              ELSE "p_mark"]
          /\ pollLog' = Append(pollLog,
                               [ev |-> "seen", cycle |-> tasks[t].cycle,
                                tweet |-> tw, processed |-> processed])
  /\ UNCHANGED <<rev, users, activity_logs, admin_logs, SCORE_CONFIG,
                 msgVars, chanVars, processed_tweets, announced, cycles,
                 lastReply, histVars>>

\* markTweetAsProcessed (lines 1767-1774), then the test of
\* TWEET_UPDATES_CHANNEL (line 1732).
poll_mark(t) ==
  /\ tasks[t].pc = "p_mark"
  /\ \E ok \in Outcomes :
       /\ faults' = Fault("store", ok)
       /\ processed_tweets' =
            IF ok THEN processed_tweets \cup {Head(tasks[t].tweets)}
            ELSE processed_tweets
  /\ tasks' = [tasks EXCEPT
                 ![t].pc = IF TWEET_UPDATES_CHANNEL # Unset THEN "p_announce"
                           ELSE "e_users"]
  /\ pollLog' = Append(pollLog,
                       [ev |-> "new", cycle |-> tasks[t].cycle,
                        tweet |-> Head(tasks[t].tweets),
                        channel |-> TWEET_UPDATES_CHANNEL])
  /\ UNCHANGED <<rev, users, activity_logs, admin_logs, SCORE_CONFIG,
                 msgVars, chanVars, announced, cycles, lastReply, histVars>>

\* lines 1733-1744: the channel is fetched and the link sent.  A failing
\* fetch is caught and logged.  The promise of send is not awaited: the loop
\* goes on at once, and a send that fails is a rejection nobody handles.
poll_announce(t) ==
  /\ tasks[t].pc = "p_announce"
  /\ \E ok \in Outcomes, sent \in Outcomes :
       /\ ok \/ sent
       /\ faults' = Fault("discord", ok /\ sent)
       /\ announced' =
            IF ok /\ sent
            THEN Append(announced, [tweet |-> Head(tasks[t].tweets),
                                    cycle |-> tasks[t].cycle])
            ELSE announced
       /\ pollLog' =
            IF ok /\ ~sent
            THEN Append(pollLog, [ev |-> "unhandled", cycle |-> tasks[t].cycle,
                                  tweet |-> Head(tasks[t].tweets)])
            ELSE pollLog
  /\ tasks' = [tasks EXCEPT ![t].pc = "e_users"]
  /\ UNCHANGED <<rev, users, activity_logs, admin_logs, SCORE_CONFIG,
                 msgVars, chanVars, processed_tweets, cycles,
                 lastReply, histVars>>

\* The process has ended: the last entry of the log says so.
Exited == pollLog # <<>> /\ pollLog[Len(pollLog)].ev = "exit"

\* The rejection of a send (lines 1739-1741) arrives, at any moment after
\* the call.  No handler of unhandledRejection is installed, and the Node
\* versions discord.js 14 runs on end the process on it: every handler in
\* flight stops where it is.
unhandledRejection ==
  /\ ~Exited
  /\ \E i \in 1..Len(pollLog) : pollLog[i].ev = "unhandled"
  /\ pollLog' = Append(pollLog, [ev |-> "exit", cycle |-> cycles,
                                 tweet |-> "none"])
  /\ UNCHANGED <<rev, users, activity_logs, admin_logs, SCORE_CONFIG,
                 msgVars, chanVars, processed_tweets, announced, cycles,
                 lastReply, tasks, faults, histVars>>

\* awardTweetEngagementPoints, lines 1782-1790: the users are selected.
engagement_users(t) ==
  /\ tasks[t].pc = "e_users"
  /\ \E ok \in Outcomes :
       LET log == Append(pollLog, [ev |-> "evaluate", cycle |-> tasks[t].cycle,
                                   tweet |-> Head(tasks[t].tweets)])
       IN /\ faults' = Fault("store", ok)
          /\ IF ok
             THEN /\ tasks' = [tasks EXCEPT ![t].pc = "e_likes",
                                            ![t].rows = SelectUsers(UserList)]
                  /\ pollLog' = log
             ELSE Continue(t, <<>>, log)
  /\ UNCHANGED <<rev, users, activity_logs, admin_logs, SCORE_CONFIG,
                 msgVars, chanVars, processed_tweets, announced, cycles,
                 lastReply, histVars>>

\* lines 1793-1795: the accounts that liked the tweet.
engagement_likes(t) ==
  /\ tasks[t].pc = "e_likes"
  /\ \E ok \in Outcomes, likesData \in LikerSets :
       /\ faults' = Fault("twitter", ok)
       /\ IF ok
          THEN /\ tasks' = [tasks EXCEPT ![t].pc = "e_retweets",
                                         ![t].likesData = likesData]
               /\ pollLog' = pollLog
          ELSE Continue(t, <<>>, pollLog)
  /\ UNCHANGED <<rev, users, activity_logs, admin_logs, SCORE_CONFIG,
                 msgVars, chanVars, processed_tweets, announced, cycles,
                 lastReply, histVars>>

\* lines 1796-1858: the accounts that retweeted it; then the awards begin.
engagement_retweets(t) ==
  /\ tasks[t].pc = "e_retweets"
  /\ \E ok \in Outcomes, retweetsData \in RetweeterSets :
       /\ faults' = Fault("twitter", ok)
       /\ IF ok
          THEN Continue(t,
                 Engagements(tasks[t].rows, tasks[t].likesData, retweetsData),
                 Append(pollLog,
                        [ev |-> "fetched", cycle |-> tasks[t].cycle,
                         tweet |-> Head(tasks[t].tweets),
                         likesData |-> tasks[t].likesData,
                         retweetsData |-> retweetsData]))
          ELSE Continue(t, <<>>, pollLog)
  /\ UNCHANGED <<rev, users, activity_logs, admin_logs, SCORE_CONFIG,
                 msgVars, chanVars, processed_tweets, announced, cycles,
                 lastReply, histVars>>

\* After an award (lines 1829-1837, 1847-1855) the loop goes on.
engagement_after(t) ==
  /\ tasks[t].h = "poll"
  /\ tasks[t].pc = "ap_ret"
  /\ Continue(t, tasks[t].todo, pollLog)
  /\ UNCHANGED <<rev, users, activity_logs, admin_logs, SCORE_CONFIG,
                 msgVars, chanVars, processed_tweets, announced, cycles,
                 lastReply, faults, histVars>>

(***************************************************************************)
(* PollSpec: poll cycles one after the other, with and without an updates  *)
(* channel, the external calls failing.                                    *)
(***************************************************************************)
PollInit ==
  /\ rev = 2
  /\ users = [u \in Users |-> IF u = "u1" THEN NewRow ELSE VerifiedRow]
  /\ activity_logs = <<>>
  /\ admin_logs = <<>>
  /\ processed_tweets = {}
  /\ StartUp(DefaultConfig, <<>>)

\* /tweeterupdates (lines 1343-1362): the channel id is kept in memory.
tweeterupdates(u, permissions, channelId) ==
  /\ LET reply(text) == [Reply("tweeterupdates", u, text) EXCEPT
                          !.args = <<permissions, channelId>>]
     IN IF ~Has(permissions, "ManageGuild")
        THEN /\ lastReply' = reply("admin only")
             /\ TWEET_UPDATES_CHANNEL' = TWEET_UPDATES_CHANNEL
        ELSE /\ TWEET_UPDATES_CHANNEL' = channelId
             /\ lastReply' = reply("updated")
  /\ UNCHANGED <<rev, users, activity_logs, admin_logs, SCORE_CONFIG,
                 msgVars, REACTION_CHANNELS, BOT_LOG_CHANNEL,
                 reaction_channels, pollVars, tasks, faults, histVars>>

\* The updates channel is set between two cycles, and nothing runs once the
\* process has ended.
PollNext ==
  \/ ~Exited /\ Active = {} /\ tweeterupdates("u1", {"ManageGuild"}, "c9")
  \/ ~Exited /\ \E t \in Tasks : Active = {} /\ checkTwitterActivity(t)
  \/ ~Exited /\ \E t \in Tasks : poll_account(t)
  \/ ~Exited /\ \E t \in Tasks : poll_timeline(t)
  \/ ~Exited /\ \E t \in Tasks : poll_hasProcessed(t)
  \/ ~Exited /\ \E t \in Tasks : poll_mark(t)
  \/ ~Exited /\ \E t \in Tasks : poll_announce(t)
  \/ ~Exited /\ \E t \in Tasks : engagement_users(t)
  \/ ~Exited /\ \E t \in Tasks : engagement_likes(t)
  \/ ~Exited /\ \E t \in Tasks : engagement_retweets(t)
  \/ ~Exited /\ \E t \in Tasks : awardPoints_fetch(t)
  \/ ~Exited /\ \E t \in Tasks : awardPoints_update(t)
  \/ ~Exited /\ \E t \in Tasks : awardPoints_log(t)
  \/ ~Exited /\ \E t \in Tasks : engagement_after(t)
  \/ unhandledRejection

PollSpec == PollInit /\ [][PollNext]_vars

(***************************************************************************)
(* HandleSpec: the poller with a user who gave /verify their handle, as    *)
(* the command's option asks ("Your Twitter handle (without @)",           *)
(* src/registerCommands.js:7-15), and one who gave an account id.          *)
(***************************************************************************)
\* The username of the account with this id, as in the user objects that
\* tweetLikedBy and tweetRetweetedBy return.
Username(id) == IF id = "id1" THEN "h1" ELSE "h2"

HandleRow == [NewRow EXCEPT !.twitter_id = Username("id1")]

HandleInit ==
  /\ rev = 2
  /\ users = [u \in Users |-> IF u = "u1" THEN HandleRow ELSE VerifiedRow]
  /\ activity_logs = <<>>
  /\ admin_logs = <<>>
  /\ processed_tweets = {}
  /\ StartUp(DefaultConfig, <<>>)

HandleSpec == HandleInit /\ [][PollNext]_vars

(***************************************************************************)
(* /resetpoints; src/index.js:1176-1219.                                   *)
(***************************************************************************)
resetpoints(t, adminId, permissions, targetId) ==
  /\ Free(t)
  /\ Len(admin_logs) < MaxEdits
  /\ IF ~Has(permissions, "Administrator")
     THEN /\ lastReply' = [Reply("resetpoints", adminId, "admin only") EXCEPT
                            !.args = <<permissions, targetId>>]
          /\ tasks' = tasks
     ELSE /\ tasks' = Start(t, [IdleTask EXCEPT
                                  !.h = "resetpoints", !.pc = "rp_fetch",
                                  !.u = targetId, !.adminId = adminId,
                                  !.permissions = permissions])
          /\ lastReply' = lastReply
  /\ UNCHANGED <<rev, users, activity_logs, admin_logs, SCORE_CONFIG,
                 msgVars, chanVars, pollVars, faults, histVars>>

\* lines 1186-1199: the old points are read.
resetpoints_fetch(t) ==
  /\ tasks[t].pc = "rp_fetch"
  /\ \E ok \in Outcomes :
       LET oldData == users[tasks[t].u]
       IN /\ faults' = Fault("store", ok)
          /\ IF ~ok \/ ~oldData.exists
             THEN Finish(t, Reply("resetpoints", tasks[t].adminId, "not found"))
             ELSE /\ tasks' = [tasks EXCEPT ![t].pc = "rp_update",
                                            ![t].oldPoints = oldData.points]
                  /\ lastReply' = lastReply
  /\ UNCHANGED <<rev, users, activity_logs, admin_logs, SCORE_CONFIG,
                 msgVars, chanVars, pollVars, histVars>>

\* lines 1201-1211: points are set to 0.
resetpoints_update(t) ==
  /\ tasks[t].pc = "rp_update"
  /\ \E ok \in Outcomes :
       /\ faults' = Fault("store", ok)
       /\ IF ok
          THEN /\ users' = [users EXCEPT
                              ![tasks[t].u] = IF @.exists
                                              THEN [@ EXCEPT !.points = 0]
                                              ELSE @]
               /\ tasks' = [tasks EXCEPT ![t].pc = "rp_log"]
               /\ lastReply' = lastReply
          ELSE /\ users' = users
               /\ Finish(t, Reply("resetpoints", tasks[t].adminId,
                                  "could not reset"))
  /\ UNCHANGED <<rev, activity_logs, admin_logs, SCORE_CONFIG,
                 msgVars, chanVars, pollVars, histVars>>

\* lines 1212-1218: logAdminAction(user.id, targetId, "resetpoints",
\* -oldPoints), then the reply.
resetpoints_log(t) ==
  /\ tasks[t].pc = "rp_log"
  /\ \E ok \in Outcomes :
       /\ faults' = Fault("store", ok)
       /\ admin_logs' =
            IF ok
            THEN Append(admin_logs,
                        AdminEntry(tasks[t].adminId, tasks[t].u, "resetpoints",
                                   -tasks[t].oldPoints))
            ELSE admin_logs
  /\ Finish(t, Reply("resetpoints", tasks[t].adminId, "reset"))
  /\ UNCHANGED <<rev, users, activity_logs, SCORE_CONFIG,
                 msgVars, chanVars, pollVars, histVars>>

(***************************************************************************)
(* PointsSpec: the reward of a reaction edited by /editscores, reactions   *)
(* of a verified user, and /resetpoints.                                   *)
(***************************************************************************)
\* Values given to /editscores: its value option takes any number.
PointValues == {-1, 2}

\* The commands and reactions arrive one after another.
PointsNext ==
  \/ /\ Active = {}
     /\ \E value \in PointValues :
          editscores("u1", TRUE, "reactionPoints", value)
  \/ /\ Active = {}
     /\ \E t \in Tasks : messageReactionAdd(t, "u2", "c1", FALSE)
  \/ /\ Active = {}
     /\ \E t \in Tasks : resetpoints(t, "u1", {"Administrator"}, "u2")
  \/ \E t \in Tasks : resetpoints_fetch(t)
  \/ \E t \in Tasks : resetpoints_update(t)
  \/ \E t \in Tasks : resetpoints_log(t)
  \/ \E t \in Tasks : awardPoints_fetch(t)
  \/ \E t \in Tasks : awardPoints_update(t)
  \/ \E t \in Tasks : awardPoints_log(t)
  \/ \E t \in Tasks : messageReactionAdd_after(t)

PointsSpec == CfgInit /\ [][PointsNext]_vars

(***************************************************************************)
(* /setreactionchannel, /removereactionchannel, /setbotlogchannel;         *)
(* src/index.js:1265-1340, with addReactionChannel and                     *)
(* removeReactionChannel, lines 1018-1043.                                 *)
(***************************************************************************)
\* REACTION_CHANNELS.filter((id) => id !== channelId)
RECURSIVE Without(_, _)
Without(list, x) ==
  IF list = <<>> THEN <<>>
  ELSE (IF Head(list) = x THEN <<>> ELSE <<Head(list)>>)
       \o Without(Tail(list), x)

\* The permission check of a channel command and the call of the helper.
ChannelCommand(t, cmd, pc, u, permissions, channelId) ==
  /\ Free(t)
  /\ IF ~Has(permissions, "ManageGuild")
     THEN /\ lastReply' = [Reply(cmd, u, "admin only") EXCEPT
                            !.args = <<permissions, channelId>>]
          /\ tasks' = tasks
     ELSE /\ tasks' = Start(t, [IdleTask EXCEPT
                                  !.h = cmd, !.pc = pc, !.adminId = u,
                                  !.permissions = permissions,
                                  !.channelId = channelId])
          /\ lastReply' = lastReply
  /\ UNCHANGED <<rev, users, activity_logs, admin_logs, SCORE_CONFIG,
                 msgVars, chanVars, pollVars, faults, histVars>>

setreactionchannel(t, u, permissions, channelId) ==
  /\ Len(REACTION_CHANNELS) < MaxChannels
  /\ ChannelCommand(t, "setreactionchannel", "rc_insert", u, permissions,
                    channelId)

removereactionchannel(t, u, permissions, channelId) ==
  ChannelCommand(t, "removereactionchannel", "rc_delete", u, permissions,
                 channelId)

\* addReactionChannel and the reply: the row is inserted and the id pushed,
\* or the error is logged.
addReactionChannel(t) ==
  /\ tasks[t].pc = "rc_insert"
  /\ \E ok \in Outcomes :
       LET channelId == tasks[t].channelId
       IN /\ faults' = Fault("store", ok)
          /\ reaction_channels' =
               IF ok THEN reaction_channels \cup {channelId}
               ELSE reaction_channels
          /\ REACTION_CHANNELS' =
               IF ok THEN Append(REACTION_CHANNELS, channelId)
               ELSE REACTION_CHANNELS
          /\ Finish(t, Reply("setreactionchannel", tasks[t].adminId,
                             IF ok THEN "added" ELSE "could not add"))
  /\ UNCHANGED <<rev, users, activity_logs, admin_logs, SCORE_CONFIG,
                 msgVars, TWEET_UPDATES_CHANNEL, BOT_LOG_CHANNEL, pollVars,
                 histVars>>

\* removeReactionChannel and the reply: the rows are deleted and the id
\* filtered out, or the error is logged.
removeReactionChannel(t) ==
  /\ tasks[t].pc = "rc_delete"
  /\ \E ok \in Outcomes :
       LET channelId == tasks[t].channelId
       IN /\ faults' = Fault("store", ok)
          /\ reaction_channels' =
               IF ok THEN reaction_channels \ {channelId}
               ELSE reaction_channels
          /\ REACTION_CHANNELS' =
               IF ok THEN Without(REACTION_CHANNELS, channelId)
               ELSE REACTION_CHANNELS
          /\ Finish(t, Reply("removereactionchannel", tasks[t].adminId,
                             IF ok THEN "removed" ELSE "could not remove"))
  /\ UNCHANGED <<rev, users, activity_logs, admin_logs, SCORE_CONFIG,
                 msgVars, TWEET_UPDATES_CHANNEL, BOT_LOG_CHANNEL, pollVars,
                 histVars>>

\* /setbotlogchannel: the channel id is kept in memory.
setbotlogchannel(u, permissions, channelId) ==
  /\ LET reply(text) == [Reply("setbotlogchannel", u, text) EXCEPT
                          !.args = <<permissions, channelId>>]
     IN IF ~Has(permissions, "ManageGuild")
        THEN /\ lastReply' = reply("admin only")
             /\ BOT_LOG_CHANNEL' = BOT_LOG_CHANNEL
        ELSE /\ BOT_LOG_CHANNEL' = channelId
             /\ lastReply' = reply("updated")
  /\ UNCHANGED <<rev, users, activity_logs, admin_logs, SCORE_CONFIG,
                 msgVars, REACTION_CHANNELS, TWEET_UPDATES_CHANNEL,
                 reaction_channels, pollVars, tasks, faults, histVars>>

(***************************************************************************)
(* AdminSpec: the privileged commands, one after the other, issued by      *)
(* members with and without the permissions.                               *)
(***************************************************************************)
\* The user of the reset has points to lose.
AdminInit ==
  /\ rev = 2
  /\ users = [u \in Users |-> IF u = "u1" THEN NoRow
                              ELSE [VerifiedRow EXCEPT !.points = 5]]
  /\ activity_logs = <<>>
  /\ admin_logs = <<>>
  /\ processed_tweets = {}
  /\ StartUp(DefaultConfig, <<"c1">>)

AdminNext ==
  \/ /\ Active = {}
     /\ \E permissions \in PermissionSets :
          editscores("u1", Has(permissions, "ManageGuild"), "likePoints", 3)
  \/ /\ Active = {}
     /\ \E t \in Tasks, permissions \in PermissionSets :
          resetpoints(t, "u1", permissions, "u2")
  \/ /\ Active = {}
     /\ \E t \in Tasks, permissions \in PermissionSets :
          setreactionchannel(t, "u1", permissions, "c2")
  \/ /\ Active = {}
     /\ \E t \in Tasks, permissions \in PermissionSets :
          removereactionchannel(t, "u1", permissions, "c1")
  \/ /\ Active = {}
     /\ \E permissions \in PermissionSets :
          setbotlogchannel("u1", permissions, "c2")
  \/ /\ Active = {}
     /\ \E permissions \in PermissionSets :
          tweeterupdates("u1", permissions, "c2")
  \/ \E t \in Tasks : resetpoints_fetch(t)
  \/ \E t \in Tasks : resetpoints_update(t)
  \/ \E t \in Tasks : resetpoints_log(t)
  \/ \E t \in Tasks : addReactionChannel(t)
  \/ \E t \in Tasks : removeReactionChannel(t)

AdminSpec == AdminInit /\ [][AdminNext]_vars

(***************************************************************************)
(* MirrorSpec: the load of the reaction channels at startup                *)
(* (loadReactionChannels, src/index.js:1003-1016, called at line 1874)     *)
(* and the two channel commands, in any interleaving.                      *)
(***************************************************************************)
ChannelIds == {"c1", "c2"}

\* The rows of the table as a select returns them.
RECURSIVE Rows(_)
Rows(table) ==
  IF table = {} THEN <<>>
  ELSE LET c == CHOOSE x \in table : \A y \in table : x = "c1" \/ y # "c1"
       IN <<c>> \o Rows(table \ {c})

\* The select of loadReactionChannels is answered from the table as it is
\* now; on an error the function returns and the list stays as it was.
loadReactionChannels_select(t) ==
  /\ tasks[t].pc = "load_select"
  /\ \E ok \in Outcomes :
       /\ faults' = Fault("store", ok)
       /\ tasks' = [tasks EXCEPT
                      ![t] = IF ok THEN [@ EXCEPT !.pc = "load_assign",
                                                  !.rows = Rows(reaction_channels)]
                             ELSE IdleTask]
  /\ UNCHANGED <<rev, users, activity_logs, admin_logs, SCORE_CONFIG,
                 msgVars, chanVars, pollVars, lastReply, histVars>>

\* The answer arrives: REACTION_CHANNELS = data.map(...), line 1012.
loadReactionChannels_assign(t) ==
  /\ tasks[t].pc = "load_assign"
  /\ REACTION_CHANNELS' = tasks[t].rows
  /\ tasks' = [tasks EXCEPT ![t] = IdleTask]
  /\ UNCHANGED <<rev, users, activity_logs, admin_logs, SCORE_CONFIG,
                 msgVars, TWEET_UPDATES_CHANNEL, BOT_LOG_CHANNEL,
                 reaction_channels, pollVars, lastReply, faults, histVars>>

\* The process has logged in and called loadReactionChannels; the list is
\* still the empty one of line 896, the table is what earlier runs left.
MirrorInit ==
  /\ rev = 2
  /\ users = [u \in Users |-> NoRow]
  /\ activity_logs = <<>>
  /\ admin_logs = <<>>
  /\ processed_tweets = {}
  /\ SCORE_CONFIG = DefaultConfig
  /\ dailyMessageTracker = [u \in Users |-> NoTracker]
  /\ today = 0
  /\ attempts = [u \in Users |-> {}]
  /\ capped = [u \in Users |-> FALSE]
  /\ REACTION_CHANNELS = <<>>
  /\ TWEET_UPDATES_CHANNEL = Unset
  /\ BOT_LOG_CHANNEL = Unset
  /\ reaction_channels \in SUBSET ChannelIds
  /\ announced = <<>>
  /\ cycles = 0
  /\ pollLog = <<>>
  /\ lastReply = NoReply
  /\ tasks = [t \in Tasks |->
                IF t = 1 THEN [IdleTask EXCEPT !.h = "login",
                                               !.pc = "load_select"]
                ELSE IdleTask]
  /\ faults = NoFaults
  /\ calls = 0
  /\ done = <<>>

MirrorNext ==
  \/ \E t \in Tasks : loadReactionChannels_select(t)
  \/ \E t \in Tasks : loadReactionChannels_assign(t)
  \/ \E t \in Tasks, channelId \in ChannelIds :
       setreactionchannel(t, "u1", {"ManageGuild"}, channelId)
  \/ \E t \in Tasks, channelId \in ChannelIds :
       removereactionchannel(t, "u1", {"ManageGuild"}, channelId)
  \/ \E t \in Tasks : addReactionChannel(t)
  \/ \E t \in Tasks : removeReactionChannel(t)

MirrorSpec == MirrorInit /\ [][MirrorNext]_vars

(***************************************************************************)
(* RewardSpec: /editscores on the keys of the message policy, and the      *)
(* messages of a user, one handler at a time.                              *)
(***************************************************************************)
\* The key the reward of a message would have, and the key of the cap.
RewardKeys == {"messageReward", "messageMaxPointsPerDay"}
RewardValues == {2, 3}

RewardNext ==
  \/ /\ Active = {}
     /\ \E key \in RewardKeys, value \in RewardValues :
          editscores("u2", TRUE, key, value)
  \/ \E t \in Tasks : Active = {} /\ messageCreate(t, "u1", FALSE)
  \/ \E t \in Tasks : awardPoints_fetch(t)
  \/ \E t \in Tasks : awardPoints_update(t)
  \/ \E t \in Tasks : awardPoints_log(t)
  \/ \E t \in Tasks : messageCreate_after(t)

RewardSpec == MsgInit /\ [][RewardNext]_vars

(***************************************************************************)
(* /leaderboard; src/index.js:1152-1173.  LeaderSpec: invocations on a     *)
(* ledger that does not change.                                            *)
(***************************************************************************)
\* .limit(10)
LeaderboardLimit == 10

\* The users that have a row.
Existing == {u \in Users : users[u].exists}

\* .order("points", { ascending: false }): the rows in an order of
\* non-increasing points.  No second key is given, so rows with equal points
\* come in whatever order the store produces them.
OrderByPoints ==
  {s \in [1..Cardinality(Existing) -> Existing] :
     /\ \A i, j \in DOMAIN s : i # j => s[i] # s[j]
     /\ \A i, j \in DOMAIN s : i < j => users[s[i]].points >= users[s[j]].points}

\* .limit(n)
Limit(s, n) == SubSeq(s, 1, Min(Len(s), n))

leaderboard(t, u) ==
  /\ Free(t)
  /\ tasks' = Start(t, [IdleTask EXCEPT !.h = "leaderboard",
                                        !.pc = "lb_select", !.u = u])
  /\ UNCHANGED <<rev, users, activity_logs, admin_logs, SCORE_CONFIG,
                 msgVars, chanVars, pollVars, lastReply, faults, histVars>>

\* The select is answered and the reply lists the rows in the order given.
leaderboard_select(t) ==
  /\ tasks[t].pc = "lb_select"
  /\ \E ok \in Outcomes, data \in OrderByPoints :
       /\ faults' = Fault("store", ok)
       /\ Finish(t, IF ok
                    THEN [Reply("leaderboard", tasks[t].u, "board") EXCEPT
                            !.args = Limit(data, LeaderboardLimit)]
                    ELSE Reply("leaderboard", tasks[t].u, "error"))
  /\ UNCHANGED <<rev, users, activity_logs, admin_logs, SCORE_CONFIG,
                 msgVars, chanVars, pollVars, histVars>>

\* The rows a user may have when the behaviour starts.
LeaderRows == {NoRow} \cup {[VerifiedRow EXCEPT !.points = n] : n \in 0..2}

LeaderInit ==
  /\ rev = 2
  /\ users \in [Users -> LeaderRows]
  /\ activity_logs = <<>>
  /\ admin_logs = <<>>
  /\ processed_tweets = {}
  /\ StartUp(DefaultConfig, <<>>)

LeaderNext ==
  \/ \E t \in Tasks, u \in Users : leaderboard(t, u)
  \/ \E t \in Tasks : leaderboard_select(t)

LeaderSpec == LeaderInit /\ [][LeaderNext]_vars

(***************************************************************************)
(* OverlapSpec: poll cycles that overlap, a cycle of the timer             *)
(* (setInterval, line 1877) or of /fetchtwitter (lines 1443-1469) starting *)
(* while another one runs.  The updates channel is configured, the account *)
(* has one post, no member has linked a handle (the loop of the awards has *)
(* nothing to do) and every external call succeeds.                        *)
(***************************************************************************)
OverlapInit ==
  /\ rev = 2
  /\ users = [u \in Users |-> NewRow]
  /\ activity_logs = <<>>
  /\ admin_logs = <<>>
  /\ processed_tweets = {}
  /\ SCORE_CONFIG = DefaultConfig
  /\ dailyMessageTracker = [u \in Users |-> NoTracker]
  /\ today = 0
  /\ attempts = [u \in Users |-> {}]
  /\ capped = [u \in Users |-> FALSE]
  /\ REACTION_CHANNELS = <<>>
  /\ TWEET_UPDATES_CHANNEL = "c9"
  /\ BOT_LOG_CHANNEL = Unset
  /\ reaction_channels = {}
  /\ announced = <<>>
  /\ cycles = 0
  /\ pollLog = <<>>
  /\ lastReply = NoReply
  /\ tasks = [t \in Tasks |-> IdleTask]
  /\ faults = [NoFaults EXCEPT !.store = MaxFaults]
  /\ calls = 0
  /\ done = <<>>

\* lines 1709-1725, the account having the one post t1.
poll_onePost(t) ==
  /\ poll_timeline(t)
  /\ tasks'[t].tweets = <<"t1">>

OverlapNext ==
  \/ \E t \in Tasks : checkTwitterActivity(t)
  \/ \E t \in Tasks : poll_account(t)
  \/ \E t \in Tasks : poll_onePost(t)
  \/ \E t \in Tasks : poll_hasProcessed(t)
  \/ \E t \in Tasks : poll_mark(t)
  \/ \E t \in Tasks : poll_announce(t)
  \/ \E t \in Tasks : engagement_users(t)
  \/ \E t \in Tasks : engagement_likes(t)
  \/ \E t \in Tasks : engagement_retweets(t)

OverlapSpec == OverlapInit /\ [][OverlapNext]_vars

(***************************************************************************)
(* ResetRaceSpec: /resetpoints for u2 while a reaction of u2 is being      *)
(* rewarded.  No reaction arrives once a reset has answered with success.  *)
(***************************************************************************)
ResetRaceNext ==
  \/ /\ lastReply.text # "reset"
     /\ \E t \in Tasks : messageReactionAdd(t, "u2", "c1", FALSE)
  \/ \E t \in Tasks : resetpoints(t, "u1", {"Administrator"}, "u2")
  \/ \E t \in Tasks : resetpoints_fetch(t)
  \/ \E t \in Tasks : resetpoints_update(t)
  \/ \E t \in Tasks : resetpoints_log(t)
  \/ \E t \in Tasks : awardPoints_fetch(t)
  \/ \E t \in Tasks : awardPoints_update(t)
  \/ \E t \in Tasks : awardPoints_log(t)
  \/ \E t \in Tasks : messageReactionAdd_after(t)

ResetRaceSpec == AdminInit /\ [][ResetRaceNext]_vars

(***************************************************************************)
(* GateSpec: reactions of a verified user in the channels, and             *)
(* /removereactionchannel, from the moment the process has logged in and   *)
(* is loading the list of reaction channels (lines 1871-1875).             *)
(***************************************************************************)
GateInit ==
  /\ rev = 2
  /\ users = [u \in Users |-> IF u = "u1" THEN NoRow ELSE VerifiedRow]
  /\ activity_logs = <<>>
  /\ admin_logs = <<>>
  /\ processed_tweets = {}
  /\ SCORE_CONFIG = DefaultConfig
  /\ dailyMessageTracker = [u \in Users |-> NoTracker]
  /\ today = 0
  /\ attempts = [u \in Users |-> {}]
  /\ capped = [u \in Users |-> FALSE]
  /\ REACTION_CHANNELS = <<>>
  /\ TWEET_UPDATES_CHANNEL = Unset
  /\ BOT_LOG_CHANNEL = Unset
  /\ reaction_channels = {"c1"}
  /\ announced = <<>>
  /\ cycles = 0
  /\ pollLog = <<>>
  /\ lastReply = NoReply
  /\ tasks = [t \in Tasks |->
                IF t = 1 THEN [IdleTask EXCEPT !.h = "login",
                                               !.pc = "load_select"]
                ELSE IdleTask]
  /\ faults = NoFaults
  /\ calls = 0
  /\ done = <<>>

GateNext ==
  \/ \E t \in Tasks : loadReactionChannels_select(t)
  \/ \E t \in Tasks : loadReactionChannels_assign(t)
  \/ \E t \in Tasks : removereactionchannel(t, "u1", {"ManageGuild"}, "c1")
  \/ \E t \in Tasks : removeReactionChannel(t)
  \/ \E t \in Tasks, channelId \in ChannelIds, bot \in BOOLEAN :
       messageReactionAdd(t, "u2", channelId, bot)
  \/ \E t \in Tasks : awardPoints_fetch(t)
  \/ \E t \in Tasks : awardPoints_update(t)
  \/ \E t \in Tasks : awardPoints_log(t)
  \/ \E t \in Tasks : messageReactionAdd_after(t)

GateSpec == GateInit /\ [][GateNext]_vars

(***************************************************************************)
(*                              PROPERTIES                                 *)
(***************************************************************************)
\* "No users row, or a row whose twitter_id is empty."
Unverified(u) == ~users[u].exists \/ users[u].twitter_id = Unset

LogsOf(u) == SelectSeq(activity_logs, LAMBDA e : e.discord_id = u)

\* Invocation t leaves the awaited call it is suspended at in this step.
Leaves(t, pc) == tasks[t].pc = pc /\ tasks'[t].pc # pc

InAward(t) == tasks[t].pc \in {"ap_fetch", "ap_update", "ap_log"}

\* C1 - Verification gate: an awardPoints call that finds the user without a
\* row, or with an empty twitter_id, returns newPoints = null and a verified
\* that is not true, whatever the amount and the label; and no step changes
\* the points of a user who is unverified, or appends an activity_logs entry
\* for that user.
C1_VerificationGate ==
  [][/\ \A t \in Tasks :
          (Leaves(t, "ap_fetch") /\ Unverified(tasks[t].u)) =>
             /\ tasks'[t].pc = "ap_ret"
             /\ tasks'[t].ret.pointsNull
             /\ ~tasks'[t].ret.verified
      /\ \A u \in Users :
          Unverified(u) =>
             /\ users'[u].points = users[u].points
             /\ LogsOf(u)' = LogsOf(u)]_vars

\* An award of a non-zero amount to an unverified user has returned.
C1_Witness ==
  \E t \in Tasks :
    /\ tasks[t].pc = "ap_ret"
    /\ tasks[t].amt # 0
    /\ Unverified(tasks[t].u)
    /\ tasks[t].ok
    /\ tasks[t].ret.pointsNull

\* Two calls that ran one after the other, for the same verified user, with
\* non-zero amounts and every store call succeeding.
Sequential(a, b) ==
  /\ a.u = b.u
  /\ a.ok /\ b.ok
  /\ ~a.ret.pointsNull /\ ~b.ret.pointsNull
  /\ a.amt # 0 /\ b.amt # 0

\* C3 - Additive correctness (sequential): awardPoints(user, A, x) followed
\* without overlap by awardPoints(user, B, y), A and B non-zero, for a
\* verified user with points P leaves points P + A + B, appends exactly the
\* two entries (x, A) and (y, B), and each call returns the running total.
C3_AdditiveSequential ==
  \A i \in 1..(Len(done) - 1) :
    LET a == done[i]
        b == done[i + 1]
    IN Sequential(a, b) =>
         /\ b.before = a.after
         /\ b.after = a.before + a.amt + b.amt
         /\ a.ret.newPoints = a.before + a.amt
         /\ b.ret.newPoints = a.before + a.amt + b.amt
         /\ b.logStart = a.logEnd
         /\ b.logEnd = a.logStart + 2
         /\ activity_logs[a.logStart + 1] = LogEntry(a.u, a.action, a.amt)
         /\ activity_logs[a.logStart + 2] = LogEntry(b.u, b.action, b.amt)

C3_Witness ==
  /\ Len(done) = 2
  /\ Sequential(done[1], done[2])
  /\ done[1].before = 3
  /\ done[1].action # done[2].action

\* Two awards in flight that read the same points of the same user and both
\* wrote them.
Racing(a, b) ==
  /\ a # b
  /\ tasks[a].pc = "ap_ret" /\ tasks[b].pc = "ap_ret"
  /\ tasks[a].u = tasks[b].u
  /\ ~tasks[a].ret.pointsNull /\ ~tasks[b].ret.pointsNull
  /\ tasks[a].oldPoints = tasks[b].oldPoints

HasLog(t) ==
  \E i \in 1..Len(activity_logs) :
    activity_logs[i] = LogEntry(tasks[t].u, tasks[t].action, tasks[t].amt)

\* C4 - Lost-update race: two awards to the same user that both read the
\* same points value each write and report old + their own delta; when they
\* are the only awards made, the stored points are old + one of the two
\* deltas, and both activity_logs entries are written when the inserts
\* succeed.
C4_LostUpdate ==
  \A a, b \in Tasks :
    Racing(a, b) =>
      /\ tasks[a].ret.newPoints = tasks[a].oldPoints + tasks[a].amt
      /\ tasks[b].ret.newPoints = tasks[b].oldPoints + tasks[b].amt
      /\ calls = 2 =>
           users[tasks[a].u].points \in
             {tasks[a].ret.newPoints, tasks[b].ret.newPoints}
      /\ (tasks[a].ok /\ tasks[a].amt # 0) => HasLog(a)
      /\ (tasks[b].ok /\ tasks[b].amt # 0) => HasLog(b)

\* The interleaving of the claim: both awards succeeded and logged, and the
\* stored points hold one delta only.
C4_Witness ==
  \E a, b \in Tasks :
    /\ Racing(a, b)
    /\ calls = 2
    /\ tasks[a].ok /\ tasks[b].ok
    /\ tasks[a].amt # 0 /\ tasks[b].amt # 0
    /\ HasLog(a) /\ HasLog(b)
    /\ Len(activity_logs) = 2
    /\ users[tasks[a].u].points = tasks[a].oldPoints + tasks[a].amt
    /\ users[tasks[a].u].points #
         tasks[a].oldPoints + tasks[a].amt + tasks[b].amt

\* The points update of invocation t fails in this step.
UpdateFails(t) ==
  /\ tasks[t].pc = "ap_update"
  /\ tasks'[t].pc = "ap_ret"
  /\ faults' # faults

\* C9 as claimed - Store write failure: when the points update fails,
\* awardPoints returns newPoints = null with verified = true, appends no
\* activity_logs entry and leaves the users table unchanged.
C9_Original ==
  [][\A t \in Tasks :
       UpdateFails(t) =>
         /\ tasks'[t].ret.pointsNull
         /\ tasks'[t].ret.verified
         /\ activity_logs' = activity_logs
         /\ users' = users]_vars

\* C9 as amended - the second revision returns newPoints = null with
\* verified = true; the first revision returns null, the very result an
\* unverified user gets; in both, no activity_logs entry is appended and the
\* users table is unchanged.
C9_WriteFailure ==
  [][\A t \in Tasks :
       UpdateFails(t) =>
         /\ tasks'[t].ret.pointsNull
         /\ rev = 2 => (~tasks'[t].ret.isNull /\ tasks'[t].ret.verified)
         /\ rev = 1 => (tasks'[t].ret.isNull /\ ~tasks'[t].ret.verified)
         /\ activity_logs' = activity_logs
         /\ users' = users]_vars

\* The update of a second-revision award to a verified user has failed.
C9_Witness ==
  \E t \in Tasks :
    /\ rev = 2
    /\ tasks[t].pc = "ap_ret"
    /\ ~Unverified(tasks[t].u)
    /\ tasks[t].ret.pointsNull
    /\ tasks[t].ret.verified

\* C10 as claimed - Zero-delta award: no step of awardPoints(user, 0, label)
\* changes the users table or appends an activity_logs entry.
C10_Original ==
  [][\A t \in Tasks :
       (InAward(t) /\ tasks[t].amt = 0 /\ tasks'[t].pc # tasks[t].pc) =>
         /\ users' = users
         /\ activity_logs' = activity_logs]_vars

(***************************************************************************)
(* The message throttle.                                                   *)
(***************************************************************************)
Tracked(u) == dailyMessageTracker[u]
PerPoint == SCORE_CONFIG.messagesPerPoint
DailyCap == SCORE_CONFIG.messageMaxPointsPerDay
\* Messages m, 2m, ..., c*m among the first n messages of a day.
AwardMessages(n) == {k \in 1..n : k % PerPoint = 0 /\ k <= DailyCap * PerPoint}
\* A step that counts one more message of u on the tracked day.
CountsMessage(u) ==
  /\ Tracked(u).present
  /\ Tracked(u).date = today
  /\ Tracked(u)'.messagesSoFar = Tracked(u).messagesSoFar + 1

C2_Throttle ==
  \A u \in Users :
    /\ Tracked(u).present =>
         /\ attempts[u] = AwardMessages(Tracked(u).messagesSoFar)
         /\ Tracked(u).pointsEarnedToday <= DailyCap
         /\ Cardinality(attempts[u]) <= DailyCap
    /\ \A t \in Tasks : tasks[t].h = "message" => tasks[t].amt = 1

C2_HardStop ==
  \A u \in Users :
    (CountsMessage(u) /\ Tracked(u).pointsEarnedToday >= DailyCap)
      => /\ attempts'[u] = attempts[u]
         /\ tasks' = tasks
         /\ users' = users

\* C2: with the messages of the users handled one at a time, a message award
\* of 1 point is attempted exactly on messages m, 2m, ..., c*m of a user's
\* day (m = messagesPerPoint, c = messageMaxPointsPerDay); pointsEarnedToday
\* and the number of attempts never exceed c; and a message counted once
\* pointsEarnedToday >= c starts no award.
C2_DailyCap == [](C2_Throttle) /\ [][C2_HardStop]_vars

\* The cap of 2 is reached on message 2 and two more messages were counted.
C2_Witness ==
  \E u \in Users :
    /\ PerPoint = 1 /\ DailyCap = 2
    /\ Tracked(u).messagesSoFar = 4
    /\ Tracked(u).pointsEarnedToday = 2
    /\ attempts[u] = {1, 2}

\* C7 as stated: once a user has reached the cap, the tracker is replaced by
\* a zeroed one on the first message of a later date, and the m-th message
\* of the new day is awarded again.
C7_Original ==
  \A u \in Users :
    (/\ capped[u]
     /\ Tracked(u).date = today
     /\ Tracked(u).messagesSoFar >= PerPoint)
      => PerPoint \in attempts[u]

\* The reset alone: a message handled with a tracker of an earlier date
\* leaves a tracker of today with one message and, at that moment, no points;
\* and no other step replaces a tracker.
C7_LazyReset ==
  \A u \in Users :
    /\ (Tracked(u).present /\ Tracked(u)'.date # Tracked(u).date)
         => /\ Tracked(u).date # today
            /\ Tracked(u)' = [present |-> TRUE, date |-> today,
                              messagesSoFar |-> 1, pointsEarnedToday |-> 0]
    /\ today' # today => dailyMessageTracker' = dailyMessageTracker

C7_Reset == [][C7_LazyReset]_vars

\* The m-th message of a new day has been handled after a capped day.
C7_Witness ==
  \E u \in Users :
    /\ capped[u]
    /\ Tracked(u).date = today
    /\ Tracked(u).messagesSoFar = PerPoint
    /\ PerPoint \in attempts[u]

\* C6 as stated - Wallet set-once: a sol_wallet that holds an address is
\* never changed by a later step, so it stays the address of the first
\* successful connect.
C6_Original ==
  [][\A u \in Users :
       users[u].sol_wallet # Unset =>
         users'[u].sol_wallet = users[u].sol_wallet]_vars

\* C6, the rejection: an invocation that reads the user's row while it
\* holds an address, the read succeeding, replies already-connected and
\* writes nothing.
C6_RejectedWhenRead ==
  [][\A t \in Tasks :
       (/\ Leaves(t, "cw_fetch")
        /\ faults' = faults
        /\ users[tasks[t].u].sol_wallet # Unset)
         => /\ lastReply' = Reply("connectwallet", tasks[t].u, "already")
            /\ tasks'[t] = IdleTask
            /\ users' = users]_vars

\* The /editscores invocation a reply answers.
EditArgs(reply) ==
  [manageGuild |-> reply.args[1], key |-> reply.args[2], value |-> reply.args[3]]

\* C8 - Unknown policy key rejected: /editscores by a member holding
\* ManageGuild with a key that is not one of SCORE_CONFIG's own keys replies
\* with the error that lists SCORE_CONFIG's keys, leaves SCORE_CONFIG
\* unchanged and writes no admin_logs entry; with a known key it sets that
\* key to the given value and leaves the other keys unchanged.  No other
\* step changes SCORE_CONFIG.
C8_EditScores ==
  [][(\/ SCORE_CONFIG' # SCORE_CONFIG
      \/ admin_logs' # admin_logs
      \/ lastReply' # lastReply /\ lastReply'.cmd = "editscores")
       => /\ lastReply'.cmd = "editscores"
          /\ LET a == EditArgs(lastReply')
             IN /\ (a.manageGuild /\ a.key \notin DOMAIN SCORE_CONFIG)
                     => /\ lastReply'.text = "invalid key"
                        /\ lastReply'.keys = DOMAIN DefaultConfig
                        /\ SCORE_CONFIG' = SCORE_CONFIG
                        /\ admin_logs' = admin_logs
                /\ (a.manageGuild /\ a.key \in DOMAIN SCORE_CONFIG)
                     => /\ DOMAIN SCORE_CONFIG' = DOMAIN SCORE_CONFIG
                        /\ SCORE_CONFIG'[a.key] = a.value
                        /\ \A k \in DOMAIN SCORE_CONFIG \ {a.key} :
                             SCORE_CONFIG'[k] = SCORE_CONFIG[k]
                /\ ~a.manageGuild
                     => /\ SCORE_CONFIG' = SCORE_CONFIG
                        /\ admin_logs' = admin_logs]_vars

\* A known key has been set, and a later invocation with an unknown key has
\* been rejected with the list of keys.
C8_Witness ==
  /\ SCORE_CONFIG.likePoints = 3
  /\ SCORE_CONFIG.reactionPoints = DefaultConfig.reactionPoints
  /\ Len(admin_logs) = 1
  /\ lastReply.cmd = "editscores"
  /\ lastReply.text = "invalid key"
  /\ lastReply.args[2] = "messagePoints"
  /\ lastReply.keys = DOMAIN SCORE_CONFIG

(***************************************************************************)
(* The poller.                                                             *)
(***************************************************************************)
Tweets == {"t1", "t2"}
Events(ev) == {i \in 1..Len(pollLog) : pollLog[i].ev = ev}
\* The times tweet tw was sent to the updates channel.
Announcements(tw) == {i \in 1..Len(announced) : announced[i].tweet = tw}
\* The cycles that had tw in their timeline.
CyclesWith(tw) == {pollLog[i].cycle : i \in {j \in Events("seen") : pollLog[j].tweet = tw}}
\* The awards a cycle made to u for a tweet and an action kind.
Awards(c, tw, u, action) ==
  {i \in Events("award") :
     pollLog[i] = [ev |-> "award", cycle |-> c, tweet |-> tw, u |-> u,
                   action |-> action]}
\* All awards made to u for an action kind.
AwardsOf(u, action) ==
  {i \in Events("award") : pollLog[i].u = u /\ pollLog[i].action = action}
\* The poller is evaluating tweet tw in cycle c.
Evaluating(c, tw) ==
  \E t \in Tasks : /\ tasks[t].h = "poll"
                   /\ tasks[t].cycle = c
                   /\ tasks[t].tweets # <<>>
                   /\ Head(tasks[t].tweets) = tw
PollIdle == \A t \in Tasks : tasks[t].h # "poll"
Present(u, accounts) == ~Unverified(u) /\ users[u].twitter_id \in accounts

\* With the store available, a tweet is announced at most once and only in
\* the first cycle that has it in its timeline.
AnnouncedAtMostOnce ==
  \A tw \in Tweets :
    /\ Cardinality(Announcements(tw)) <= 1
    /\ \A i \in Announcements(tw) :
         \A c \in CyclesWith(tw) : announced[i].cycle <= c

\* A tweet first seen with the updates channel configured is announced once
\* the announce step is over; sent says whether the step is assumed to
\* succeed.
AnnouncedOnce(sent) ==
  \A i \in Events("new") :
    LET e == pollLog[i]
    IN (/\ e.channel # Unset
        /\ sent
        /\ \A t \in Tasks : ~(tasks[t].pc \in {"p_mark", "p_announce"}))
         => Cardinality(Announcements(e.tweet)) = 1

\* In every cycle whose fetches of a tweet succeeded, each verified user in
\* the liked-by (retweeted-by) set is credited once, and nobody else, and
\* the credits of all cycles add up in the user's points.
EngagementRepeats ==
  /\ \A i \in Events("fetched") :
       LET e == pollLog[i]
       IN ~Evaluating(e.cycle, e.tweet) =>
            \A u \in Users :
              /\ Cardinality(Awards(e.cycle, e.tweet, u, "twitter_like")) =
                   IF Present(u, e.likesData) THEN 1 ELSE 0
              /\ Cardinality(Awards(e.cycle, e.tweet, u, "twitter_retweet")) =
                   IF Present(u, e.retweetsData) THEN 1 ELSE 0
  /\ PollIdle =>
       \A u \in Users :
         users[u].points =
           Cardinality(AwardsOf(u, "twitter_like")) * SCORE_CONFIG.likePoints
           + Cardinality(AwardsOf(u, "twitter_retweet")) * SCORE_CONFIG.retweetPoints

\* C5 as stated - with the updates channel configured and the store
\* available, a tweet is announced exactly once, in the first cycle that
\* sees it, and engagement is credited again in every cycle.
C5_Original ==
  faults.store = 0 =>
    AnnouncedAtMostOnce /\ AnnouncedOnce(TRUE) /\ EngagementRepeats

\* C5 as amended - with the store available a tweet is announced at most
\* once, in the first cycle that sees it, and exactly once when the updates
\* channel is configured at that moment and the channel fetch and send
\* succeed; in every cycle whose like and retweet fetches succeed every
\* verified user in a set is credited again.
C5_AnnounceOnceEngagementRepeats ==
  faults.store = 0 =>
    /\ AnnouncedAtMostOnce
    /\ AnnouncedOnce(faults.discord = 0)
    /\ EngagementRepeats

\* Two cycles saw t1: it was announced in the first one only, and the user
\* who liked and retweeted it was credited in both.
C5_Witness ==
  /\ PollIdle
  /\ faults = NoFaults
  /\ CyclesWith("t1") = {1, 2}
  /\ Cardinality(Announcements("t1")) = 1
  /\ announced[1] = [tweet |-> "t1", cycle |-> 1]
  /\ Cardinality(AwardsOf("u2", "twitter_like")) = 2
  /\ Cardinality(AwardsOf("u2", "twitter_retweet")) = 2
  /\ users["u2"].points = 2 * 4 + 2 * 7

(***************************************************************************)
(* Failures.                                                               *)
(***************************************************************************)
\* C11 as stated - No uncaught failure: no handler invocation ends with an
\* uncaught exception, whichever store calls fail.
C11_Original == lastReply.text # "uncaught"

\* C12 as stated - Non-negative points: every user's points are >= 0 in
\* every reachable state.
C12_Original == \A u \in Users : users[u].points >= 0

\* The user's linked handle is the username of an account in the set.
HandleIn(u, accounts) ==
  ~Unverified(u) /\ users[u].twitter_id \in {Username(id) : id \in accounts}

\* C13 as stated - Engagement awards: in a cycle whose like and retweet
\* fetches of a post succeeded, every verified user whose linked handle is in
\* the liked-by set gets exactly one award labelled "engagement_like", every
\* one whose handle is in the retweeted-by set exactly one labelled
\* "engagement_share", and users not in a set get none.
C13_Original ==
  \A i \in Events("fetched") :
    LET e == pollLog[i]
    IN ~Evaluating(e.cycle, e.tweet) =>
         \A u \in Users :
           /\ Cardinality(Awards(e.cycle, e.tweet, u, "engagement_like")) =
                IF HandleIn(u, e.likesData) THEN 1 ELSE 0
           /\ Cardinality(Awards(e.cycle, e.tweet, u, "engagement_share")) =
                IF HandleIn(u, e.retweetsData) THEN 1 ELSE 0

\* The head of a cycle: the account and the timeline are being asked for.
AtHead(t) == tasks[t].pc \in {"p_account", "p_timeline"}
\* The call the cycle in slot t was waiting for fails in this step.
TwitterFails(t) == AtHead(t) /\ faults'.twitter # faults.twitter
NothingProcessed ==
  /\ UNCHANGED <<processed_tweets, announced, users, activity_logs>>
  /\ \A ev \in {"seen", "new", "evaluate", "fetched", "award"} :
       Events(ev)' = Events(ev)

\* C14 - Poll cycle abort: a cycle starts with the request for the account;
\* from its start until the timeline has arrived nothing is processed, and
\* when the account or the timeline request fails or has no answer the cycle
\* ends there, so that processed_tweets, the announcements and the points
\* are those of before the cycle and the next cycle starts from step 1.
C14_CycleAbort ==
  [][\A t \in Tasks :
       /\ (tasks[t].h # "poll" /\ tasks'[t].h = "poll")
            => (tasks'[t].pc = "p_account" /\ NothingProcessed)
       /\ AtHead(t) => NothingProcessed
       /\ TwitterFails(t) => tasks'[t] = IdleTask]_vars

\* The first cycle was aborted and left nothing behind; the second one
\* started from the account again and evaluated t1.
C14_Witness ==
  /\ PollIdle
  /\ cycles = 2
  /\ faults.twitter = 1
  /\ CyclesWith("t1") = {2}
  /\ \A i \in 1..Len(pollLog) : pollLog[i].cycle = 2
  /\ \A i \in 1..Len(announced) : announced[i].cycle = 2

\* The entries of a log of one kind for tweet tw in cycle c.
EventsIn(log, ev, c, tw) ==
  {i \in 1..Len(log) :
     log[i].ev = ev /\ log[i].cycle = c /\ log[i].tweet = tw}
EventsOf(ev, c, tw) == EventsIn(pollLog, ev, c, tw)
\* The likes or the retweets request of the cycle in slot t fails in this
\* step.
EngagementFails(t) ==
  /\ tasks[t].pc \in {"e_likes", "e_retweets"}
  /\ faults'.twitter # faults.twitter

\* C15 - Per-post engagement fetch failure: when the likes or the retweets
\* request of a post fails nobody is credited for the post in that cycle and
\* its processed status stays as it is; the cycle goes on with the next post
\* of the timeline; and every cycle evaluates every post of its timeline
\* once, whatever happened to the post in earlier cycles.  In steps: an award
\* begins only after a successful fetch for the post in the same cycle; a
\* cycle leaves a post only after it has evaluated it once; a failing
\* request changes nothing and hands over to the next post.
C15_FetchFailure ==
  [][\A t \in Tasks :
       /\ (tasks'[t].pc = "ap_fetch" /\ tasks[t].pc # "ap_fetch") =>
            EventsIn(pollLog', "fetched", tasks'[t].cycle,
                     Head(tasks'[t].tweets)) # {}
       /\ (/\ tasks[t].h = "poll"
           /\ tasks[t].tweets # <<>>
           /\ tasks'[t].tweets # tasks[t].tweets) =>
            Cardinality(EventsIn(pollLog', "evaluate", tasks[t].cycle,
                                 Head(tasks[t].tweets))) = 1
       /\ EngagementFails(t) =>
            /\ UNCHANGED <<processed_tweets, users, activity_logs, pollLog>>
            /\ tasks'[t].todo = <<>>
            /\ IF Len(tasks[t].tweets) > 1
               THEN /\ tasks'[t].pc = "p_has"
                    /\ tasks'[t].tweets = Tail(tasks[t].tweets)
                    /\ tasks'[t].cycle = tasks[t].cycle
               ELSE tasks'[t] = IdleTask]_vars

\* In cycle 1 the engagement of t2 could not be fetched: nobody was credited
\* for t2, t1 was still evaluated and credited, and cycle 2 evaluated t2
\* again and credited it.
C15_Witness ==
  /\ PollIdle
  /\ faults.twitter = 1
  /\ EventsOf("evaluate", 1, "t2") # {}
  /\ EventsOf("fetched", 1, "t2") = {}
  /\ Awards(1, "t2", "u2", "twitter_like") = {}
  /\ Awards(1, "t1", "u2", "twitter_retweet") # {}
  /\ "t2" \in processed_tweets
  /\ EventsOf("fetched", 2, "t2") # {}
  /\ Awards(2, "t2", "u2", "twitter_retweet") # {}

\* C16 as stated - Announcement never blocks engagement: every post a cycle
\* has looked up is evaluated for engagement after the announce step,
\* whatever that step's outcome; so at any moment the post has been
\* evaluated or the running cycle is about to evaluate it.
C16_Original ==
  \A i \in Events("seen") :
    LET e == pollLog[i]
    IN \/ EventsOf("evaluate", e.cycle, e.tweet) # {}
       \/ ~Exited /\ Evaluating(e.cycle, e.tweet)

(***************************************************************************)
(* The privileged commands.                                                *)
(***************************************************************************)
\* A privileged command ends with its reply of success in this step.
Succeeds ==
  /\ lastReply'.text \in {"updated", "added", "removed", "reset"}
  /\ lastReply' # lastReply \/ admin_logs' # admin_logs

\* C17 as stated - Admin audit log: every successful /editscores,
\* /setreactionchannel, /removereactionchannel, /setbotlogchannel,
\* /tweeterupdates and /resetpoints appends exactly one admin_logs entry
\* naming the acting admin, for a reset with points_changed = minus the old
\* points; rejected or failed commands append none.  Stated for the runs in
\* which no store call has failed.
C17_Original ==
  [][/\ (Succeeds /\ faults' = NoFaults) =>
          \E e \in {AdminEntry(lastReply'.user, userId, action, n) :
                      userId \in Users \cup {"N/A"},
                      action \in {lastReply'.cmd, "editscores_likePoints"},
                      n \in -5..5} :
            /\ admin_logs' = Append(admin_logs, e)
            /\ lastReply'.cmd = "resetpoints" =>
                 \E t \in Tasks : /\ tasks[t].pc = "rp_log"
                                  /\ e.user_id = tasks[t].u
                                  /\ e.points_changed = -tasks[t].oldPoints
     /\ ~Succeeds => admin_logs' = admin_logs]_vars

\* The member holds the permission, as Discord counts it.
Holds(permissions, flag) ==
  flag \in permissions \/ "Administrator" \in permissions
\* The task of slot t works for a member holding the permission.
WorksFor(t, cmd, flag) ==
  tasks[t].h = cmd /\ Holds(tasks[t].permissions, flag)
\* The reply of this step answers cmd issued by a member holding the
\* permission.
Answers(cmd, flag) ==
  /\ lastReply'.cmd = cmd
  /\ lastReply'.args # <<>>
  /\ Holds(lastReply'.args[1], flag)
\* This step rejects a command for want of a permission.
Rejects ==
  /\ lastReply' # lastReply
  /\ lastReply'.text \in {"admin only", "only admins or mods"}

InMemory == {REACTION_CHANNELS[i] : i \in 1..Len(REACTION_CHANNELS)}

\* C19 as stated - Reaction-channel mirror: in every quiescent state after
\* startup, whatever commands were issued and whichever store calls failed,
\* REACTION_CHANNELS as a set equals the channel ids of the reaction_channels
\* table.
C19_Original == Active = {} => InMemory = reaction_channels

(***************************************************************************)
(* The reward of a message.                                                *)
(***************************************************************************)
\* A message award is about to be made by slot t.
Crediting(t) == tasks[t].h = "message" /\ tasks[t].pc = "ap_fetch"
\* What the user can still earn today.
Headroom(u) == DailyCap - Tracked(u).pointsEarnedToday
\* The last command was /editscores messageReward by a privileged member.
RewardEdit ==
  /\ lastReply.cmd = "editscores"
  /\ lastReply.args[1]
  /\ lastReply.args[2] = "messageReward"
\* The message reward as the operator has set it, 1 by default.
messageReward == IF RewardEdit THEN lastReply.args[3] ELSE 1

\* C20 as stated - Configurable message reward: a qualifying message is
\* credited min(messageReward, dailyCap - pointsEarnedToday), messageReward
\* being 1 by default and r once a privileged operator has set it to r.
C20_Original ==
  \A t \in Tasks :
    Crediting(t) => tasks[t].amt = Min(messageReward, Headroom(tasks[t].u))

\* C20 as amended - a qualifying message is credited
\* min(1, messageMaxPointsPerDay - pointsEarnedToday): the reward is the
\* constant 1; SCORE_CONFIG has no key for it, and /editscores refuses such
\* a key, naming the keys there are, and changes nothing.
C20_FixedReward ==
  /\ "messageReward" \notin DOMAIN SCORE_CONFIG
  /\ RewardEdit => /\ lastReply.text = "invalid key"
                   /\ lastReply.keys = DOMAIN SCORE_CONFIG
  /\ \A t \in Tasks :
       Crediting(t) => tasks[t].amt = Min(1, Headroom(tasks[t].u))

\* The operator asked for a message reward of 2 and was refused; the next
\* qualifying message is credited 1 although 2 could still be earned.
C20_Witness ==
  /\ RewardEdit
  /\ lastReply.args[3] = 2
  /\ lastReply.text = "invalid key"
  /\ \E t \in Tasks : /\ Crediting(t)
                       /\ tasks[t].amt = 1
                       /\ Headroom(tasks[t].u) >= 2

(***************************************************************************)
(* The leaderboard.                                                        *)
(***************************************************************************)
\* The reply is a leaderboard.
IsBoard(reply) == reply.cmd = "leaderboard" /\ reply.text = "board"
\* A leaderboard lists at most 10 users, those with the highest points, in
\* non-increasing order of points.
TopTen(board) ==
  /\ Len(board) <= 10
  /\ \A i, j \in DOMAIN board :
       i < j => users[board[i]].points >= users[board[j]].points
  /\ \A u \in Existing :
       (\A i \in DOMAIN board : board[i] # u) =>
         /\ Len(board) = 10
         /\ \A i \in DOMAIN board : users[board[i]].points >= users[u].points

\* C21 as stated - Leaderboard: /leaderboard lists at most 10 users, those
\* with the highest points, in non-increasing order of points, and two
\* invocations on the same ledger state list users with equal points in the
\* same relative order.
C21_Original ==
  /\ [](IsBoard(lastReply) => TopTen(lastReply.args))
  /\ [][(IsBoard(lastReply) /\ IsBoard(lastReply') /\ users' = users)
          => lastReply'.args = lastReply.args]_vars

\* C22 as stated - Daily cap under interleaving: when messageCreate handlers
\* of one user interleave at the await of awardPoints, pointsEarnedToday
\* never exceeds messageMaxPointsPerDay and the message awards attempted for
\* the user on one day never outnumber the cap.
C22_Original ==
  \A u \in Users :
    Tracked(u).present =>
      /\ Tracked(u).pointsEarnedToday <= DailyCap
      /\ Cardinality(attempts[u]) <= DailyCap

\* C23 as stated - Announce at most once under overlapping cycles: when two
\* poll cycles overlap, each post is still announced at most once.
C23_Original ==
  \A tw \in Tweets : Cardinality(Announcements(tw)) <= 1

\* C24 as stated - Processed marks under store failures: a post that is
\* announced has its mark in processed_tweets and was not announced before,
\* whatever the answers of the store to the lookup and to the insert.
C24_Original ==
  [][Len(announced') > Len(announced) =>
       LET tw == announced'[Len(announced')].tweet
       IN /\ tw \in processed_tweets
          /\ Announcements(tw) = {}]_vars

\* C25 as stated - Reset against an award in flight: once /resetpoints for a
\* user has answered with success, no award for the user has started since
\* and every handler has finished, the user's points are 0; and the value the
\* reset logs, -oldPoints, is minus the points its update overwrites.
C25_Original ==
  /\ []((Active = {} /\ lastReply.text = "reset") => users["u2"].points = 0)
  /\ [][\A t \in Tasks :
          (tasks[t].pc = "rp_update" /\ tasks'[t].pc = "rp_log") =>
            tasks[t].oldPoints = users[tasks[t].u].points]_vars

\* C26 as stated - Ledger and log agree: the step by which awardPoints comes
\* to return a non-null newPoints for a non-zero amount has appended exactly
\* one activity_logs entry with the user, the label and the amount, whatever
\* the store answers to the insert.
C26_Original ==
  [][\A t \in Tasks :
       (/\ InAward(t)
        /\ tasks[t].pc # "ap_ret"
        /\ tasks'[t].pc = "ap_ret"
        /\ ~tasks'[t].ret.pointsNull
        /\ tasks[t].amt # 0) =>
         activity_logs' =
           Append(activity_logs,
                  LogEntry(tasks[t].u, tasks[t].action, tasks[t].amt))]_vars

\* The connect-wallet rewards logged for u.
WalletRewards(u) ==
  {i \in 1..Len(activity_logs) :
     activity_logs[i].discord_id = u /\ activity_logs[i].action = "connect_wallet"}

\* C27 as stated - Connect-wallet reward at most once: whatever the order and
\* the overlap of a user's /connectwallet invocations and whatever the store
\* answers, the reward is credited at most once, and only to a user whose
\* wallet address has been stored.
C27_Original ==
  \A u \in Users :
    /\ Cardinality(WalletRewards(u)) <= 1
    /\ WalletRewards(u) # {} => users[u].sol_wallet # Unset

\* A reaction is handled in this step and starts an award.
StartsReward(t) == tasks[t].h # "reaction" /\ tasks'[t].h = "reaction"

\* C28 as stated - Reaction gate: a reaction starts an award only of
\* reactionPoints, and once /removereactionchannel has answered with success
\* for c1, the only listed channel, no later reaction starts an award.
C28_Original ==
  [][\A t \in Tasks :
       StartsReward(t) =>
         /\ tasks'[t].amt = SCORE_CONFIG.reactionPoints
         /\ lastReply.text # "removed"]_vars

\* Invocation t of /connectwallet ends in this step telling the user to
\* verify first.
ToldToVerify(t) ==
  /\ tasks[t].pc \in {"cw_update", "cw_refetch"}
  /\ tasks'[t] = IdleTask
  /\ lastReply'.text = "must verify"

\* C29 as stated - Wallet before verification: a /connectwallet that tells
\* the user to verify first has stored the wallet, so that every later
\* /connectwallet of the user is rejected, and the user it has told so has no
\* connect-wallet reward.
C29_Original ==
  /\ [][\A t \in Tasks :
          ToldToVerify(t) => users'[tasks[t].u].sol_wallet # Unset]_vars
  /\ [](lastReply.text = "must verify" => WalletRewards(lastReply.user) = {})

\* C30 as stated - Seen once, announced then or never: a post is announced
\* only by the first cycle that sees it; one first seen without an updates
\* channel, or while the channel cannot be fetched, is announced by no later
\* cycle.
C30_Original ==
  \A j \in 1..Len(announced) :
    \A i \in Events("seen") :
      pollLog[i].tweet = announced[j].tweet =>
        pollLog[i].cycle >= announced[j].cycle

====
